---- MODULE Spec2Model ----
(***************************************************************************)
(* Tool layer of meta_ads_mcp (campaigns.py, adsets.py, insights.py).      *)
(* One tool invocation is a coroutine: it runs until its next outbound     *)
(* call (a suspend point), the HTTP shim answers or raises, and the body   *)
(* resumes until the next call or its return.                              *)
(***************************************************************************)
EXTENDS Integers, Sequences, FiniteSets, TLC

VARIABLES pc, tool, args, loc, pending, calls, replies, outcome, remote, earlier, parked

vars == <<pc, tool, args, loc, pending, calls, replies, outcome, remote, earlier, parked>>

(* ---------------- bounds ---------------- *)
\* most ad sets (and most ads) a list response carries
MaxItems == 2
\* most optional arguments a caller supplies in one invocation
MaxOptional == 2
\* most campaigns the remote account of a session holds
MaxCreated == 2
\* most items or rows a response carries while two invocations are in flight
ConcurrentItems == 1

(* ---------------- Python values of arguments and parameters ---------------- *)
\* t: the Python type, v: the payload, enc: "raw" for the value itself,
\* "json" for the str produced by json.dumps of it.
PNone == [t |-> "none", v |-> "", enc |-> "raw"]
PStr(s) == [t |-> "str", v |-> s, enc |-> "raw"]
PInt(s) == [t |-> "int", v |-> s, enc |-> "raw"]
PBool(s) == [t |-> "bool", v |-> s, enc |-> "raw"]
PDict(s) == [t |-> "dict", v |-> s, enc |-> "raw"]
PList(s) == [t |-> "list", v |-> s, enc |-> "raw"]
PEnum(s) == [t |-> "enum", v |-> s, enc |-> "raw"]

\* Python truthiness (`if x:` / `not x`)
Truthy(x) ==
    CASE x.enc = "json" -> TRUE
      [] x.t = "none" -> FALSE
      [] x.t = "str" -> x.v # ""
      [] x.t = "bool" -> x.v = "True"
      [] x.t = "int" -> x.v # "0"
      [] x.t \in {"dict", "list"} -> x.v \notin {"{}", "[]"}
      [] OTHER -> TRUE

\* str.strip() on the strings the model uses
StripStr(s) == IF s \in {" ", "  "} THEN "" ELSE s
Strip(x) == [x EXCEPT !.v = StripStr(x.v)]

\* getattr(x, 'value', x)
ValueOf(x) == IF x.t = "enum" THEN PStr(x.v) ELSE x

\* str(x)
StrOf(x) ==
    CASE x.enc = "json" -> x
      [] x.t = "none" -> PStr("None")
      [] OTHER -> PStr(x.v)

\* json.dumps(x) of an argument value
JsonDumps(x) == [x EXCEPT !.enc = "json"]

\* [x]: a one-element list holding x
ListOf(x) == [t |-> "list", v |-> x.v, enc |-> "raw"]

\* [{"field": f, "operator": op, "value": x}]
Filtering(f, op, x) == [t |-> "list[filter]", v |-> x.v, enc |-> "raw", field |-> f, operator |-> op]

\* an f-string: the template and the values substituted into it
Fmt(tpl, a) == [tpl |-> tpl, args |-> a]

(* ---------------- parameter mappings ---------------- *)
EmptyMap == [k \in {} |-> PNone]
Put(m, k, x) == [j \in DOMAIN m \cup {k} |-> IF j = k THEN x ELSE m[j]]
PutIf(c, m, k, x) == IF c THEN Put(m, k, x) ELSE m

(* ---------------- JSON text ---------------- *)
\* json.dumps(obj): the text whose parse is obj
Dumps(obj) == [text |-> obj]
\* a str parses as JSON iff it is such a text
Parses(s) == "text" \in DOMAIN s
\* json.loads(s)
Loads(s) == s.text
Has(obj, k) == k \in DOMAIN obj

(* ---------------- steps of a tool body ---------------- *)
NoCall == [fn |-> "none"]
Return(value) == [op |-> "return", value |-> value]
RaiseExc(msg) == [op |-> "raise", msg |-> msg]
Call(site, endpoint, params, method, l) ==
    [op |-> "call",
     call |-> [fn |-> "make_api_request", site |-> site, endpoint |-> endpoint,
               params |-> params, method |-> method],
     loc |-> l]
ErrorF(tpl, a) == Return(Dumps([error |-> Fmt(tpl, a)]))
Error(msg) == ErrorF(msg, <<>>)

\* The decorator applied to every tool: an exception leaving the body is
\* returned as an error object carrying str(e).
meta_api_tool(step) ==
    IF step.op = "raise" THEN ErrorF("{}", <<step.msg>>) ELSE step

(* ---------------- the HTTP shim ---------------- *)
Campaign(id, name) == [id |-> id, name |-> name]
PromoA == Campaign("c1", "Promo A")
PromoB == Campaign("c2", "Promo B")
VendorError == [error |-> [message |-> "vendor error", code |-> "100"]]
ItemIds(prefix) == IF prefix = "as" THEN <<"as1", "as2", "as3", "as4">> ELSE <<"ad1", "ad2", "ad3", "ad4">>
Items(prefix, n) == [i \in 1..n |-> [id |-> ItemIds(prefix)[i]]]

\* The remote ad set "as2" has frequency caps, the others have none.
AdsetDetail(id) ==
    IF id = "as2" THEN [id |-> id, name |-> "Ad Set", frequency_control_specs |-> "fcs"]
    ELSE [id |-> id, name |-> "Ad Set"]
\* The creatives edge of the remote ad "ad2" answers without a data list.
CreativesOf(adId) ==
    IF adId = "ad2" THEN [id |-> "cr2"] ELSE [data |-> <<[id |-> "cr", ad_id |-> adId]>>]

\* Insight rows as the insights edge returns them.
Action(type, value) == [action_type |-> type, value |-> value]
LeadRow ==
    [account_id |-> "1", spend |-> "10.50",
     actions |-> <<Action("lead", "2")>>]
BadRow == [spend |-> "bad", actions |-> <<>>]
MixedRow ==
    [account_id |-> "act_1", spend |-> "4.25",
     actions |-> <<Action("lead", "x"), Action("link_click", "7"), Action("lead", "3"),
                   Action("landing_page_view", "5")>>,
     cost_per_action_type |-> <<Action("landing_page_view", "0.85"), Action("lead", "1.41"),
                                Action("link_click", "0.60")>>]
BareRow == [impressions |-> "12"]
\* a spend below one cent, and a lead entry without a value
SubCentRow ==
    [account_id |-> "1", spend |-> "0.004",
     actions |-> <<[action_type |-> "lead"], Action("lead", "2")>>]
\* a negative adjustment
RefundRow == [account_id |-> "1", spend |-> "-1.00", actions |-> <<Action("lead", "-1")>>]
EmptySpendRow == [account_id |-> "1", spend |-> "", actions |-> <<Action("lead", "")>>]
RowSets ==
    {<<>>, <<LeadRow, BadRow>>, <<BadRow, LeadRow>>, <<MixedRow>>, <<BareRow, MixedRow>>,
     <<SubCentRow>>, <<SubCentRow, SubCentRow>>, <<RefundRow, LeadRow>>, <<EmptySpendRow, LeadRow>>}

\* One sub-response of a batch: answered, answered with a body that is not
\* JSON, or refused.
SubResponses ==
    {[code |-> 200, body |-> Dumps([data |-> <<MixedRow, BareRow>>])],
     [code |-> 200, body |-> [garbage |-> "<html>"]],
     [code |-> 500, body |-> Dumps(VendorError)]}
BatchData ==
    {<<>>} \cup {<<x>> : x \in SubResponses} \cup {<<x, y>> : x \in SubResponses, y \in SubResponses}

RemoteCampaigns ==
    <<[id |-> "c1", status |-> "ACTIVE"], [id |-> "c2", status |-> "PAUSED"],
      [id |-> "c3", status |-> "ACTIVE"]>>

\* What make_api_request can return for a call issued at a given site.
ShimData(call) ==
    CASE call.site = "campaigns" ->
           {[data |-> <<>>], [data |-> <<PromoA>>], VendorError}
      [] call.site = "campaign" ->
           {Campaign(call.endpoint.args[1], "Promo A"), VendorError}
      [] call.site = "campaign_search" ->
           {[data |-> <<>>], [data |-> <<PromoA>>], [data |-> <<PromoB>>], [data |-> <<PromoA, PromoB>>],
            [paging |-> "none"], VendorError}
      [] call.site = "adsets" ->
           {[data |-> Items("as", n)] : n \in 0..MaxItems} \cup {[paging |-> "none"], VendorError}
      [] call.site = "adset" ->
           {AdsetDetail(call.endpoint.args[1]), VendorError}
      [] call.site = "ads" ->
           {[data |-> Items("ad", n)] : n \in 0..MaxItems} \cup {[paging |-> "none"], VendorError}
      [] call.site = "creatives" ->
           {CreativesOf(call.endpoint.args[1]), VendorError}
      [] call.site = "insights" ->
           {[data |-> <<>>], [data |-> <<[spend |-> "10.50"]>>], VendorError}
      [] call.site = "create_campaign" ->
           {[id |-> "c9"], [id |-> "c9", name |-> "Server Name"], [id |-> "c9", name |-> ""], VendorError}
      [] call.site = "create_adset" ->
           {[id |-> "as9"], VendorError}
      [] call.site = "update" ->
           {[success |-> "true"], VendorError}
      [] call.site = "name" ->
           {[id |-> call.endpoint.args[1], name |-> "Server Name"], [id |-> call.endpoint.args[1]], VendorError}
      [] call.site = "batch" -> BatchData
      [] call.site = "summary_insights" ->
           {[data |-> rows] : rows \in RowSets} \cup {[paging |-> "none"], VendorError}
      [] call.site = "campaign_count" ->
           {[data |-> RemoteCampaigns], [data |-> <<>>], VendorError}
      [] call.site = "creative_details" ->
           {[id |-> call.endpoint.args[1], name |-> "Server Name", status |-> "ACTIVE"], VendorError}
      [] OTHER -> {VendorError}

\* make_api_request returns parsed JSON, or raises.
ShimOutcomes(call) ==
    {[kind |-> "ok", data |-> d] : d \in ShimData(call)} \cup {[kind |-> "raise", msg |-> "boom"]}

(* ---------------- arguments ---------------- *)
\* Every required argument is missing (None), empty or given; at most
\* MaxOptional optional arguments differ from their defaults.
ReqModes == {"none", "empty", "given"}
ReqValue(good, mode) ==
    CASE mode = "none" -> PNone [] mode = "empty" -> PStr("") [] OTHER -> good
OptSubsets(opt) == {S \in SUBSET DOMAIN opt : Cardinality(S) <= MaxOptional}
OptPicks(opt, S) == {f \in [S -> 1..3] : \A n \in S : f[n] <= Len(opt[n])}
OptOverrides(opt) ==
    UNION { { [n \in S |-> opt[n][f[n]]] : f \in OptPicks(opt, S) } : S \in OptSubsets(opt) }
ArgSets(req, defaults, opt) ==
    LET overrides == OptOverrides(opt)
        modes == [DOMAIN req -> ReqModes]
        names == DOMAIN req \cup DOMAIN defaults
    IN { [n \in names |->
            IF n \in DOMAIN req THEN ReqValue(req[n], m[n])
            ELSE IF n \in DOMAIN o THEN o[n]
            ELSE defaults[n]] : m \in modes, o \in overrides }

(* ---------------- campaigns.py: get_campaigns ---------------- *)
CampaignListFields == "id,name,objective,status,daily_budget,lifetime_budget,buying_type,start_time,stop_time,created_time,updated_time,bid_strategy,source_campaign_id,budget_remaining,spend_cap"

get_campaigns_args ==
    ArgSets([account_id |-> PStr("act_1")],
            [limit |-> PInt("10"), status_filter |-> PStr(""), after |-> PStr(""), campaign_ids |-> PNone],
            [status_filter |-> <<PStr("ACTIVE")>>, after |-> <<PStr("cursor")>>,
             campaign_ids |-> <<PList("c1")>>, limit |-> <<PInt("25")>>])

get_campaigns_body(a) ==
    IF ~Truthy(a.account_id) THEN Error("No account ID specified")
    ELSE LET p0 == [fields |-> PStr(CampaignListFields), limit |-> a.limit]
             p1 == PutIf(Truthy(a.status_filter), p0, "effective_status", JsonDumps(ListOf(a.status_filter)))
             p2 == PutIf(Truthy(a.after), p1, "after", a.after)
             p3 == PutIf(a.campaign_ids # PNone, p2, "filtering",
                         JsonDumps(Filtering("campaign.id", "IN", a.campaign_ids)))
         IN Call("campaigns", Fmt("{}/campaigns", <<a.account_id.v>>), p3, "GET", [x \in {} |-> 0])

\* data = await make_api_request(...); return json.dumps(data)
PassThrough(r) == IF r.kind = "raise" THEN RaiseExc(r.msg) ELSE Return(Dumps(r.data))

get_campaigns_resume(a, l, site, r) == PassThrough(r)

(* ---------------- campaigns.py: get_campaign_details ---------------- *)
CampaignDetailFields == "id,name,objective,status,daily_budget,lifetime_budget,buying_type,start_time,stop_time,created_time,updated_time,bid_strategy,special_ad_categories,special_ad_category_country,budget_remaining,configured_status,source_campaign_id,spend_cap"

NameContainsValues == <<PStr(""), PStr("  "), PStr("Promo")>>

get_campaign_details_args ==
    ArgSets([account_id |-> PStr("act_1")],
            [campaign_id |-> PNone, name_contains |-> PNone],
            [campaign_id |-> <<PStr(""), PStr("c1")>>, name_contains |-> NameContainsValues])

\* variation: the request built for the previous lookup is kept and reused
\* for a lookup with other arguments
get_campaign_details_body_StaleRequest(a) ==
    IF ~Truthy(a.account_id) THEN Error("account_id is required")
    ELSE IF earlier.lookup.done /\ earlier.lookup.args # a /\ earlier.lookup.calls # <<>>
    THEN Call(earlier.lookup.calls[1].site, earlier.lookup.calls[1].endpoint,
              earlier.lookup.calls[1].params, "GET", [x \in {} |-> 0])
    ELSE IF Truthy(a.name_contains) /\ Truthy(Strip(a.name_contains))
    THEN Call("campaign_search", Fmt("{}/campaigns", <<a.account_id.v>>),
              [fields |-> PStr(CampaignDetailFields),
               filtering |-> JsonDumps(Filtering("name", "CONTAIN", Strip(a.name_contains)))],
              "GET", [x \in {} |-> 0])
    ELSE IF ~Truthy(a.campaign_id) THEN Error("Either campaign_id or name_contains must be provided")
    ELSE Call("campaign", Fmt("{}", <<a.campaign_id.v>>),
              [fields |-> PStr(CampaignDetailFields)], "GET", [x \in {} |-> 0])

get_campaign_details_body(a) ==
    IF ~Truthy(a.account_id) THEN Error("account_id is required")
    ELSE IF Truthy(a.name_contains) /\ Truthy(Strip(a.name_contains))
    THEN Call("campaign_search", Fmt("{}/campaigns", <<a.account_id.v>>),
              [fields |-> PStr(CampaignDetailFields),
               filtering |-> JsonDumps(Filtering("name", "CONTAIN", Strip(a.name_contains)))],
              "GET", [x \in {} |-> 0])
    ELSE IF ~Truthy(a.campaign_id) THEN Error("Either campaign_id or name_contains must be provided")
    ELSE Call("campaign", Fmt("{}", <<a.campaign_id.v>>),
              [fields |-> PStr(CampaignDetailFields)], "GET", [x \in {} |-> 0])

\* variation: an ambiguous search is answered with the error
get_campaign_details_resume_RejectsAmbiguous(a, l, site, r) ==
    IF r.kind = "ok" /\ Has(r.data, "data") /\ Len(r.data.data) > 1
    THEN ErrorF("Search returned {} campaigns instead of 1. Found campaigns: {}. Please refine your search to target a single campaign.",
                <<Len(r.data.data),
                  [sep |-> ", ", parts |-> [i \in 1..Len(r.data.data) |-> r.data.data[i].name]]>>)
    ELSE PassThrough(r)

get_campaign_details_resume(a, l, site, r) == PassThrough(r)

(* ---------------- campaigns.py: create_campaign ---------------- *)
BudgetValues == <<PStr("1000"), PInt("1000"), PStr("")>>
BoolValues == <<PBool("True"), PBool("False")>>

create_campaign_args ==
    ArgSets([account_id |-> PStr("act_1"), name |-> PStr("My Campaign"), objective |-> PEnum("OUTCOME_LEADS")],
            [special_ad_categories |-> PNone, special_ad_category_country |-> PNone,
             daily_budget |-> PNone, lifetime_budget |-> PNone, buying_type |-> PNone,
             bid_strategy |-> PNone, bid_cap |-> PNone, spend_cap |-> PNone,
             campaign_budget_optimization |-> PNone],
            [special_ad_categories |-> <<PList("[]"), PList("HOUSING")>>,
             special_ad_category_country |-> <<PStr("NL")>>,
             daily_budget |-> BudgetValues, lifetime_budget |-> BudgetValues,
             buying_type |-> <<PStr("AUCTION")>>,
             bid_strategy |-> <<PEnum("LOWEST_COST_WITH_BID_CAP")>>,
             bid_cap |-> <<PInt("500")>>, spend_cap |-> <<PStr("10000")>>,
             campaign_budget_optimization |-> BoolValues])

\* variation: the status is left to the remote default
create_campaign_params_NoStatus(a) ==
    LET cats == IF a.special_ad_categories = PNone THEN PList("[]") ELSE a.special_ad_categories
        p0 == [name |-> a.name, objective |-> ValueOf(a.objective),
               special_ad_categories |-> JsonDumps(cats)]
        p1 == PutIf(a.daily_budget # PNone, p0, "daily_budget", StrOf(a.daily_budget))
        p2 == PutIf(a.lifetime_budget # PNone, p1, "lifetime_budget", StrOf(a.lifetime_budget))
        p3 == PutIf(a.campaign_budget_optimization # PNone, p2, "campaign_budget_optimization",
                    IF Truthy(a.campaign_budget_optimization) THEN PStr("true") ELSE PStr("false"))
        p4 == PutIf(Truthy(a.buying_type), p3, "buying_type", a.buying_type)
        p5 == PutIf(a.bid_strategy # PNone, p4, "bid_strategy", ValueOf(a.bid_strategy))
        p6 == PutIf(a.bid_cap # PNone, p5, "bid_cap", StrOf(a.bid_cap))
        p7 == PutIf(a.spend_cap # PNone, p6, "spend_cap", StrOf(a.spend_cap))
    IN PutIf(Truthy(a.special_ad_category_country), p7, "special_ad_category_country",
             a.special_ad_category_country)

create_campaign_params(a) ==
    LET cats == IF a.special_ad_categories = PNone THEN PList("[]") ELSE a.special_ad_categories
        p0 == [name |-> a.name, objective |-> ValueOf(a.objective), status |-> PStr("PAUSED"),
               special_ad_categories |-> JsonDumps(cats)]
        p1 == PutIf(a.daily_budget # PNone, p0, "daily_budget", StrOf(a.daily_budget))
        p2 == PutIf(a.lifetime_budget # PNone, p1, "lifetime_budget", StrOf(a.lifetime_budget))
        p3 == PutIf(a.campaign_budget_optimization # PNone, p2, "campaign_budget_optimization",
                    IF Truthy(a.campaign_budget_optimization) THEN PStr("true") ELSE PStr("false"))
        p4 == PutIf(Truthy(a.buying_type), p3, "buying_type", a.buying_type)
        p5 == PutIf(a.bid_strategy # PNone, p4, "bid_strategy", ValueOf(a.bid_strategy))
        p6 == PutIf(a.bid_cap # PNone, p5, "bid_cap", StrOf(a.bid_cap))
        p7 == PutIf(a.spend_cap # PNone, p6, "spend_cap", StrOf(a.spend_cap))
    IN PutIf(Truthy(a.special_ad_category_country), p7, "special_ad_category_country",
             a.special_ad_category_country)

create_campaign_body(a) ==
    IF ~Truthy(a.account_id) THEN Error("No account ID provided")
    ELSE IF ~Truthy(a.name) THEN Error("No campaign name provided")
    ELSE IF ~Truthy(a.objective) THEN Error("No campaign objective provided")
    ELSE LET params == create_campaign_params(a)
         IN Call("create_campaign", Fmt("{}/campaigns", <<a.account_id.v>>), params, "POST",
                 [params |-> params])

\* the except branch of the mutating tools
Failed_NoErrorKey(msg, r, params) ==
    Return(Dumps([message |-> msg, details |-> r.msg, params_sent |-> params]))

Failed(msg, r, params) ==
    Return(Dumps([error |-> msg, details |-> r.msg, params_sent |-> params]))

create_campaign_resume(a, l, site, r) ==
    IF r.kind = "raise" THEN Failed(Fmt("Failed to create campaign", <<>>), r, l.params)
    ELSE IF ~Has(r.data, "name") \/ r.data.name = ""
         THEN Return(Dumps(Put(r.data, "name", a.name.v)))
         ELSE Return(Dumps(r.data))

(* ---------------- campaigns.py: update_campaign ---------------- *)
update_campaign_args ==
    ArgSets([campaign_id |-> PStr("c1")],
            [name |-> PNone, status |-> PNone, special_ad_categories |-> PNone,
             daily_budget |-> PNone, lifetime_budget |-> PNone, bid_strategy |-> PNone,
             bid_cap |-> PNone, spend_cap |-> PNone, campaign_budget_optimization |-> PNone,
             objective |-> PNone, use_adset_level_budgets |-> PNone],
            [name |-> <<PStr("X")>>, status |-> <<PEnum("ACTIVE")>>,
             special_ad_categories |-> <<PList("[]")>>,
             daily_budget |-> BudgetValues, lifetime_budget |-> BudgetValues,
             bid_strategy |-> <<PEnum("LOWEST_COST_WITH_BID_CAP")>>,
             bid_cap |-> <<PInt("500")>>, spend_cap |-> <<PStr("10000")>>,
             campaign_budget_optimization |-> BoolValues,
             objective |-> <<PEnum("OUTCOME_LEADS")>>,
             use_adset_level_budgets |-> BoolValues])

\* `"" if x == "" else str(x)`
BudgetParam(x) == IF x = PStr("") THEN PStr("") ELSE StrOf(x)

\* variation: a supplied lifetime budget is not forwarded
SuppliedBudgets_DropsLifetime(a, p) ==
    LET q1 == PutIf(a.daily_budget # PNone, p, "daily_budget", BudgetParam(a.daily_budget))
    IN PutIf(a.campaign_budget_optimization # PNone, q1, "campaign_budget_optimization",
             IF Truthy(a.campaign_budget_optimization) THEN PStr("true") ELSE PStr("false"))

\* the campaign-level budget parameters given as supplied
SuppliedBudgets(a, p) ==
    LET q1 == PutIf(a.daily_budget # PNone, p, "daily_budget", BudgetParam(a.daily_budget))
        q2 == PutIf(a.lifetime_budget # PNone, q1, "lifetime_budget", BudgetParam(a.lifetime_budget))
    IN PutIf(a.campaign_budget_optimization # PNone, q2, "campaign_budget_optimization",
             IF Truthy(a.campaign_budget_optimization) THEN PStr("true") ELSE PStr("false"))

\* variation: the name is left out of the update
update_campaign_params_DropsName(a) ==
    LET p1 == PutIf(a.status # PNone, EmptyMap, "status", ValueOf(a.status))
        p2 == PutIf(a.special_ad_categories # PNone, p1, "special_ad_categories",
                    JsonDumps(a.special_ad_categories))
        p3 == IF a.use_adset_level_budgets # PNone /\ Truthy(a.use_adset_level_budgets)
              THEN PutIf(a.campaign_budget_optimization # PNone,
                         Put(Put(p2, "daily_budget", PStr("")), "lifetime_budget", PStr("")),
                         "campaign_budget_optimization", PStr("false"))
              ELSE SuppliedBudgets(a, p2)
        p4 == PutIf(a.bid_strategy # PNone, p3, "bid_strategy", ValueOf(a.bid_strategy))
        p5 == PutIf(a.bid_cap # PNone, p4, "bid_cap", StrOf(a.bid_cap))
        p6 == PutIf(a.spend_cap # PNone, p5, "spend_cap", StrOf(a.spend_cap))
    IN PutIf(a.objective # PNone, p6, "objective", ValueOf(a.objective))

update_campaign_params(a) ==
    LET p0 == PutIf(a.name # PNone, EmptyMap, "name", a.name)
        p1 == PutIf(a.status # PNone, p0, "status", ValueOf(a.status))
        p2 == PutIf(a.special_ad_categories # PNone, p1, "special_ad_categories",
                    JsonDumps(a.special_ad_categories))
        p3 == IF a.use_adset_level_budgets # PNone /\ Truthy(a.use_adset_level_budgets)
              THEN PutIf(a.campaign_budget_optimization # PNone,
                         Put(Put(p2, "daily_budget", PStr("")), "lifetime_budget", PStr("")),
                         "campaign_budget_optimization", PStr("false"))
              ELSE SuppliedBudgets(a, p2)
        p4 == PutIf(a.bid_strategy # PNone, p3, "bid_strategy", ValueOf(a.bid_strategy))
        p5 == PutIf(a.bid_cap # PNone, p4, "bid_cap", StrOf(a.bid_cap))
        p6 == PutIf(a.spend_cap # PNone, p5, "spend_cap", StrOf(a.spend_cap))
    IN PutIf(a.objective # PNone, p6, "objective", ValueOf(a.objective))

update_campaign_body(a) ==
    IF ~Truthy(a.campaign_id) THEN Error("No campaign ID provided")
    ELSE LET params == update_campaign_params(a) IN
         IF DOMAIN params = {} THEN Error("No update parameters provided")
         ELSE Call("update", Fmt("{}", <<a.campaign_id.v>>), params, "POST", [params |-> params])

BudgetStrategyNote == "Campaign updated to use ad set level budgets. Set budgets when creating ad sets within this campaign."

\* variation: only the POST is inside the try block
update_campaign_resume_UnguardedLookup(a, l, site, r) ==
    IF r.kind = "raise" /\ site = "update"
    THEN Failed(Fmt("Failed to update campaign {}", <<a.campaign_id.v>>), r, l.params)
    ELSE IF r.kind = "raise" THEN RaiseExc(r.msg)
    ELSE IF site = "update"
    THEN Call("name", Fmt("{}", <<a.campaign_id.v>>), [fields |-> PStr("name")], "GET",
              [params |-> l.params, data |-> Put(r.data, "campaign_id", a.campaign_id.v)])
    ELSE LET d1 == IF Has(r.data, "name") THEN Put(l.data, "name", r.data.name) ELSE l.data
             d2 == IF a.use_adset_level_budgets # PNone /\ Truthy(a.use_adset_level_budgets)
                   THEN Put(Put(d1, "budget_strategy", "ad_set_level"), "note", BudgetStrategyNote)
                   ELSE d1
         IN Return(Dumps(d2))

update_campaign_resume(a, l, site, r) ==
    IF r.kind = "raise"
    THEN Failed(Fmt("Failed to update campaign {}", <<a.campaign_id.v>>), r, l.params)
    ELSE IF site = "update"
    THEN Call("name", Fmt("{}", <<a.campaign_id.v>>), [fields |-> PStr("name")], "GET",
              [params |-> l.params, data |-> Put(r.data, "campaign_id", a.campaign_id.v)])
    ELSE LET d1 == IF Has(r.data, "name") THEN Put(l.data, "name", r.data.name) ELSE l.data
             d2 == IF a.use_adset_level_budgets # PNone /\ Truthy(a.use_adset_level_budgets)
                   THEN Put(Put(d1, "budget_strategy", "ad_set_level"), "note", BudgetStrategyNote)
                   ELSE d1
         IN Return(Dumps(d2))

(* ---------------- adsets.py: get_adsets ---------------- *)
AdsetListFields == "id,name,campaign_id,status,daily_budget,lifetime_budget,targeting,bid_amount,bid_strategy,optimization_goal,billing_event,start_time,end_time,created_time,updated_time,frequency_control_specs{event,interval_days,max_frequency},promoted_object,learning_stage_info"

get_adsets_args ==
    ArgSets([account_id |-> PStr("act_1")],
            [limit |-> PInt("10"), campaign_id |-> PStr("")],
            [limit |-> <<PInt("25")>>, campaign_id |-> <<PStr("c1"), PNone>>])

get_adsets_body(a) ==
    IF ~Truthy(a.account_id) THEN Error("No account ID specified")
    ELSE Call("adsets",
              IF Truthy(a.campaign_id) THEN Fmt("{}/adsets", <<a.campaign_id.v>>)
              ELSE Fmt("{}/adsets", <<a.account_id.v>>),
              [fields |-> PStr(AdsetListFields), limit |-> a.limit], "GET", [x \in {} |-> 0])

get_adsets_resume(a, l, site, r) == PassThrough(r)

(* ---------------- adsets.py: get_adset_details ---------------- *)
AdsetDetailFields == "id,name,campaign_id,status,frequency_control_specs{event,interval_days,max_frequency},daily_budget,lifetime_budget,targeting,bid_amount,bid_strategy,optimization_goal,billing_event,start_time,end_time,created_time,updated_time,attribution_spec,destination_type,promoted_object,pacing_type,budget_remaining,dsa_beneficiary"

NoFrequencyNote == "No frequency_control_specs field was returned by the API. This means either no frequency caps are set or the API did not include this field in the response."

get_adset_details_args == ArgSets([adset_id |-> PStr("as1")], EmptyMap, EmptyMap)

get_adset_details_body(a) ==
    IF ~Truthy(a.adset_id) THEN Error("No ad set ID provided")
    ELSE Call("adset", Fmt("{}", <<a.adset_id.v>>), [fields |-> PStr(AdsetDetailFields)], "GET",
              [x \in {} |-> 0])

get_adset_details_resume(a, l, site, r) ==
    IF r.kind = "raise" THEN RaiseExc(r.msg)
    ELSE IF ~Has(r.data, "frequency_control_specs")
         THEN Return(Dumps(Put(r.data, "_meta", [note |-> NoFrequencyNote])))
         ELSE Return(Dumps(r.data))

(* ---------------- adsets.py: create_adset ---------------- *)
create_adset_args ==
    ArgSets([account_id |-> PStr("act_1"), campaign_id |-> PStr("c1"), name |-> PStr("My Ad Set"),
             optimization_goal |-> PEnum("LEAD_GENERATION"), billing_event |-> PEnum("IMPRESSIONS")],
            [status |-> PEnum("PAUSED"), targeting |-> PNone, bid_amount |-> PNone,
             bid_strategy |-> PNone, start_time |-> PNone, end_time |-> PNone,
             dsa_beneficiary |-> PNone, dsa_payor |-> PNone, promoted_object |-> PNone,
             destination_type |-> PNone, attribution_spec |-> PNone],
            [status |-> <<PEnum("ACTIVE")>>, targeting |-> <<PDict("geo")>>,
             bid_amount |-> <<PInt("500")>>, bid_strategy |-> <<PEnum("LOWEST_COST_WITH_BID_CAP")>>,
             start_time |-> <<PStr("2023-12-01T12:00:00-0800")>>,
             end_time |-> <<PStr("2023-12-31T12:00:00-0800")>>,
             dsa_beneficiary |-> <<PStr("Org")>>, dsa_payor |-> <<PStr("Org")>>,
             promoted_object |-> <<PDict("pixel"), PDict("{}")>>,
             destination_type |-> <<PEnum("WEBSITE")>>,
             attribution_spec |-> <<PList("click7"), PList("[]")>>])

\* datetime.utcnow().strftime('%Y-%m-%dT00:00:00+0000')
UtcToday == PStr("<utcnow:%Y-%m-%d>T00:00:00+0000")

create_adset_params(a) ==
    LET p0 == [name |-> a.name, campaign_id |-> a.campaign_id, status |-> ValueOf(a.status),
               optimization_goal |-> ValueOf(a.optimization_goal),
               billing_event |-> ValueOf(a.billing_event),
               targeting |-> JsonDumps(a.targeting)]
        p1 == PutIf(a.bid_amount # PNone, p0, "bid_amount", StrOf(a.bid_amount))
        p2 == PutIf(a.bid_strategy # PNone, p1, "bid_strategy", ValueOf(a.bid_strategy))
        p3 == Put(p2, "start_time", IF ~Truthy(a.start_time) THEN UtcToday ELSE a.start_time)
        p4 == PutIf(Truthy(a.end_time), p3, "end_time", a.end_time)
        p5 == PutIf(Truthy(a.dsa_beneficiary), p4, "dsa_beneficiary", a.dsa_beneficiary)
        p6 == PutIf(Truthy(a.dsa_payor), p5, "dsa_payor", a.dsa_payor)
        p7 == PutIf(Truthy(a.promoted_object), p6, "promoted_object", JsonDumps(a.promoted_object))
        p8 == PutIf(a.destination_type # PNone, p7, "destination_type", ValueOf(a.destination_type))
    IN PutIf(Truthy(a.attribution_spec), p8, "attribution_spec", JsonDumps(a.attribution_spec))

create_adset_body(a) ==
    IF ~Truthy(a.account_id) THEN Error("No account ID provided")
    ELSE IF ~Truthy(a.campaign_id) THEN Error("No campaign ID provided")
    ELSE IF ~Truthy(a.name) THEN Error("No ad set name provided")
    ELSE IF ~Truthy(a.optimization_goal) THEN Error("No optimization goal provided")
    ELSE IF ~Truthy(a.billing_event) THEN Error("No billing event provided")
    ELSE LET params == create_adset_params(a)
         IN Call("create_adset", Fmt("{}/adsets", <<a.account_id.v>>), params, "POST",
                 [params |-> params])

create_adset_resume(a, l, site, r) ==
    IF r.kind = "raise" THEN Failed(Fmt("Failed to create ad set", <<>>), r, l.params)
    ELSE Return(Dumps(r.data))

(* ---------------- adsets.py: update_adset ---------------- *)
update_adset_defaults ==
    [frequency_control_specs |-> PNone, bid_strategy |-> PNone, bid_amount |-> PNone,
     status |-> PNone, targeting |-> PNone, optimization_goal |-> PNone,
     daily_budget |-> PNone, lifetime_budget |-> PNone, start_time |-> PNone,
     end_time |-> PNone, attribution_spec |-> PNone]

update_adset_args ==
    ArgSets([adset_id |-> PStr("as1")], update_adset_defaults,
            [frequency_control_specs |-> <<PList("impressions7x3")>>,
             bid_strategy |-> <<PEnum("LOWEST_COST_WITH_BID_CAP")>>,
             bid_amount |-> <<PInt("500")>>, status |-> <<PEnum("ACTIVE")>>,
             targeting |-> <<PDict("geo"), PStr("{geo}")>>,
             optimization_goal |-> <<PEnum("LEAD_GENERATION")>>,
             daily_budget |-> <<PStr("1000"), PInt("1000")>>,
             lifetime_budget |-> <<PStr("1000")>>,
             start_time |-> <<PStr("2023-12-01T12:00:00-0800")>>,
             end_time |-> <<PStr("2023-12-31T12:00:00-0800")>>,
             attribution_spec |-> <<PList("click7")>>])

update_adset_params(a) ==
    LET p0 == PutIf(a.frequency_control_specs # PNone, EmptyMap, "frequency_control_specs",
                    a.frequency_control_specs)
        p1 == PutIf(a.bid_strategy # PNone, p0, "bid_strategy", ValueOf(a.bid_strategy))
        p2 == PutIf(a.bid_amount # PNone, p1, "bid_amount", StrOf(a.bid_amount))
        p3 == PutIf(a.status # PNone, p2, "status", ValueOf(a.status))
        p4 == PutIf(a.optimization_goal # PNone, p3, "optimization_goal", ValueOf(a.optimization_goal))
        p5 == PutIf(a.targeting # PNone, p4, "targeting",
                    IF a.targeting.t = "dict" THEN JsonDumps(a.targeting) ELSE a.targeting)
        p6 == PutIf(a.daily_budget # PNone, p5, "daily_budget", StrOf(a.daily_budget))
        p7 == PutIf(a.lifetime_budget # PNone, p6, "lifetime_budget", StrOf(a.lifetime_budget))
        p8 == PutIf(a.start_time # PNone, p7, "start_time", a.start_time)
        p9 == PutIf(a.end_time # PNone, p8, "end_time", a.end_time)
    IN PutIf(a.attribution_spec # PNone, p9, "attribution_spec", JsonDumps(a.attribution_spec))

update_adset_body(a) ==
    IF ~Truthy(a.adset_id) THEN Error("No ad set ID provided")
    ELSE LET params == update_adset_params(a) IN
         IF DOMAIN params = {} THEN Error("No update parameters provided")
         ELSE Call("update", Fmt("{}", <<a.adset_id.v>>), params, "POST", [params |-> params])

\* variation: a failed POST is tried once more
update_adset_resume_RetriesPost(a, l, site, r) ==
    IF r.kind = "raise" /\ site = "update" /\ ~Has(l, "retried")
    THEN Call("update", Fmt("{}", <<a.adset_id.v>>), l.params, "POST",
              [params |-> l.params, retried |-> TRUE])
    ELSE IF r.kind = "raise"
    THEN Failed(Fmt("Failed to update ad set {}", <<a.adset_id.v>>), r, l.params)
    ELSE IF site = "update"
    THEN Call("name", Fmt("{}", <<a.adset_id.v>>), [fields |-> PStr("name")], "GET",
              [params |-> l.params, data |-> Put(r.data, "adset_id", a.adset_id.v)])
    ELSE Return(Dumps(IF Has(r.data, "name") THEN Put(l.data, "name", r.data.name) ELSE l.data))

update_adset_resume(a, l, site, r) ==
    IF r.kind = "raise"
    THEN Failed(Fmt("Failed to update ad set {}", <<a.adset_id.v>>), r, l.params)
    ELSE IF site = "update"
    THEN Call("name", Fmt("{}", <<a.adset_id.v>>), [fields |-> PStr("name")], "GET",
              [params |-> l.params, data |-> Put(r.data, "adset_id", a.adset_id.v)])
    ELSE Return(Dumps(IF Has(r.data, "name") THEN Put(l.data, "name", r.data.name) ELSE l.data))

(* ---------------- insights.py: get_insights ---------------- *)
InsightsFields == "account_id,account_name,campaign_id,campaign_name,adset_id,adset_name,ad_id,ad_name,impressions,clicks,spend,cpc,cpm,ctr,reach,frequency,actions,action_values,conversions,unique_clicks,cost_per_action_type,date_start,date_stop"

get_insights_args ==
    ArgSets([object_id |-> PStr("act_1")],
            [date_preset |-> PStr("last_30d"), breakdown |-> PStr(""), level |-> PStr("ad"),
             limit |-> PInt("10"), after |-> PStr(""), campaign_ids |-> PNone,
             time_range |-> PNone, time_increment |-> PStr("all_days")],
            [date_preset |-> <<PStr("last_7d")>>, breakdown |-> <<PStr("age")>>,
             level |-> <<PStr("campaign")>>, limit |-> <<PInt("25")>>,
             after |-> <<PStr("cursor")>>, campaign_ids |-> <<PList("c1")>>,
             time_range |-> <<PDict("since-until"), PStr("{since-until}"), PDict("{}")>>,
             time_increment |-> <<PNone, PInt("7")>>])

get_insights_params(a) ==
    LET p0 == [fields |-> PStr(InsightsFields), level |-> a.level, limit |-> a.limit]
        p1 == IF Truthy(a.time_range)
              THEN Put(p0, "time_range",
                       IF a.time_range.t = "dict" THEN JsonDumps(a.time_range) ELSE a.time_range)
              ELSE Put(p0, "date_preset", a.date_preset)
        p2 == PutIf(a.time_increment # PNone, p1, "time_increment", a.time_increment)
        p3 == PutIf(Truthy(a.breakdown), p2, "breakdowns", a.breakdown)
        p4 == PutIf(a.campaign_ids # PNone, p3, "filtering",
                    JsonDumps(Filtering("campaign.id", "IN", a.campaign_ids)))
    IN PutIf(Truthy(a.after), p4, "after", a.after)

get_insights_body(a) ==
    IF ~Truthy(a.object_id) THEN Error("No object ID provided")
    ELSE Call("insights", Fmt("{}/insights", <<a.object_id.v>>), get_insights_params(a), "GET",
              [x \in {} |-> 0])

\* variation: totals are merged into the response
get_insights_resume_MergesTotals(a, l, site, r) ==
    IF r.kind = "ok" /\ Has(r.data, "data")
    THEN Return(Dumps(Put(r.data, "aggregated_results", [total_spend |-> 0, total_leads |-> 0])))
    ELSE PassThrough(r)

get_insights_resume(a, l, site, r) == PassThrough(r)

(* ---------------- ads.py: get_ads, get_ad_creatives ---------------- *)
get_ads_body(a) ==
    IF ~Truthy(a.account_id) THEN Error("No account ID specified")
    ELSE Call("ads",
              IF Truthy(a.campaign_id) THEN Fmt("{}/ads", <<a.campaign_id.v>>)
              ELSE Fmt("{}/ads", <<a.account_id.v>>),
              [fields |-> PStr("id,name,adset_id,campaign_id,status,creative"), limit |-> a.limit],
              "GET", [x \in {} |-> 0])

get_ads_resume(a, l, site, r) == PassThrough(r)

get_ad_creatives_body(a) ==
    IF ~Truthy(a.ad_id) THEN Error("No ad ID provided")
    ELSE Call("creatives", Fmt("{}/adcreatives", <<a.ad_id.v>>),
              [fields |-> PStr("id,name,status,object_story_spec")], "GET", [x \in {} |-> 0])

get_ad_creatives_resume(a, l, site, r) == PassThrough(r)

(* ---------------- campaigns.py: get_complete_campaign_details_deep ---------------- *)
deep_args ==
    ArgSets([account_id |-> PStr("act_1")],
            [campaign_id |-> PNone, name_contains |-> PNone],
            [campaign_id |-> <<PStr(""), PStr("c1")>>, name_contains |-> NameContainsValues])

\* dict.get(key, default)
Get(obj, k, default) == IF Has(obj, k) THEN obj[k] ELSE default
\* del obj[k]
Del(obj, k) == [j \in DOMAIN obj \ {k} |-> obj[j]]
\* ', '.join(parts)
Join(sep, parts) == [sep |-> sep, parts |-> parts]

AddNote(result, note) == [result EXCEPT !.errors = Append(@, note)]

\* lines 430-433
deep_finish_KeepsEmptyErrors(l) ==
    Return(Dumps(l.result))

deep_finish(l) ==
    Return(Dumps(IF l.result.errors = <<>> THEN Del(l.result, "errors") ELSE l.result))

\* lines 416-425: the loop over the listed ads, from the ad at l.idx on
RECURSIVE deep_creatives_loop(_, _)
deep_creative_done(a, l, text) ==
    LET d == Loads(text)
        ad == l.items[l.idx]
        l1 == IF ~Has(d, "error") /\ Has(d, "data")
              THEN [l EXCEPT !.collected = @ \o d.data, !.idx = @ + 1]
              ELSE [l EXCEPT !.result = AddNote(@, Fmt("Ad creatives error for ad {}: {}",
                                                       <<Get(ad, "id", "unknown"), Get(d, "error", "Unknown error")>>)),
                             !.idx = @ + 1]
    IN deep_creatives_loop(a, l1)

\* variation: only the creatives of the first listed ad are fetched
deep_creatives_loop_FirstAdOnly(a, l) ==
    IF l.idx > Len(l.items) \/ l.idx > 1
    THEN deep_finish(IF l.collected # <<>>
                     THEN [l EXCEPT !.result.ad_creatives = Put(@, "data", l.collected)]
                     ELSE l)
    ELSE LET sub == meta_api_tool(get_ad_creatives_body([ad_id |-> PStr(l.items[l.idx].id)]))
         IN IF sub.op = "call" THEN [sub EXCEPT !.loc = l] ELSE deep_creative_done(a, l, sub.value)

deep_creatives_loop(a, l) ==
    IF l.idx > Len(l.items)
    THEN deep_finish(IF l.collected # <<>>
                     THEN [l EXCEPT !.result.ad_creatives = Put(@, "data", l.collected)]
                     ELSE l)
    ELSE LET sub == meta_api_tool(get_ad_creatives_body([ad_id |-> PStr(l.items[l.idx].id)]))
         IN IF sub.op = "call" THEN [sub EXCEPT !.loc = l] ELSE deep_creative_done(a, l, sub.value)

\* lines 405-428
deep_after_ads(a, l, text) ==
    LET d == Loads(text) IN
    IF Has(d, "error")
    THEN deep_finish([l EXCEPT
             !.result = [AddNote(@, Fmt("Ads API error: {}", <<Get(d, "error", "Unknown error")>>))
                           EXCEPT !.ads = Put(@, "error", "Error retrieving ads"),
                                  !.ad_creatives = Put(@, "error", "Cannot retrieve ad creatives due to ads error")]])
    ELSE IF Has(d, "data") /\ d.data # <<>>
    THEN deep_creatives_loop(a, [l EXCEPT !.result.ads = d, !.items = d.data, !.idx = 1,
                                          !.collected = <<>>])
    ELSE deep_finish([l EXCEPT
             !.result.ads = Put(@, "error", "No ads found"),
             !.result.ad_creatives = Put(@, "error", "No ads available to retrieve creatives")])

\* variation: the ad list is fetched for the campaign_id argument when there is one
deep_ads_UsesArgument(a, l) ==
    LET sub == meta_api_tool(get_ads_body([account_id |-> a.account_id, limit |-> PInt("10"),
                                           campaign_id |-> IF Truthy(a.campaign_id) THEN a.campaign_id
                                                           ELSE PStr(l.actual_campaign_id)]))
    IN IF sub.op = "call" THEN [sub EXCEPT !.loc = l] ELSE deep_after_ads(a, l, sub.value)

deep_ads(a, l) ==
    LET sub == meta_api_tool(get_ads_body([account_id |-> a.account_id, limit |-> PInt("10"),
                                           campaign_id |-> PStr(l.actual_campaign_id)]))
    IN IF sub.op = "call" THEN [sub EXCEPT !.loc = l] ELSE deep_after_ads(a, l, sub.value)

\* lines 391-401: the loop over the listed ad sets, from the ad set at l.idx on
RECURSIVE deep_adsets_loop(_, _)
\* variation: the failed detail response is collected as well as noted
deep_adset_done_CollectsFailed(a, l, text) ==
    LET d == Loads(text)
        adset == l.items[l.idx]
        l1 == IF ~Has(d, "error")
              THEN [l EXCEPT !.collected = Append(@, d), !.idx = @ + 1]
              ELSE [l EXCEPT !.collected = Append(@, Put(d, "id", Get(adset, "id", "unknown"))),
                             !.result = AddNote(@, Fmt("Adset details error for {}: {}",
                                                       <<Get(adset, "id", "unknown"), Get(d, "error", "Unknown error")>>)),
                             !.idx = @ + 1]
    IN deep_adsets_loop(a, l1)

deep_adset_done(a, l, text) ==
    LET d == Loads(text)
        adset == l.items[l.idx]
        l1 == IF ~Has(d, "error")
              THEN [l EXCEPT !.collected = Append(@, d), !.idx = @ + 1]
              ELSE [l EXCEPT !.result = AddNote(@, Fmt("Adset details error for {}: {}",
                                                       <<Get(adset, "id", "unknown"), Get(d, "error", "Unknown error")>>)),
                             !.idx = @ + 1]
    IN deep_adsets_loop(a, l1)

deep_adsets_loop(a, l) ==
    IF l.idx > Len(l.items)
    THEN deep_ads(a, IF l.collected # <<>>
                     THEN [l EXCEPT !.result.adsets = Put(@, "data", l.collected)]
                     ELSE l)
    ELSE LET sub == meta_api_tool(get_adset_details_body([adset_id |-> PStr(l.items[l.idx].id)]))
         IN IF sub.op = "call" THEN [sub EXCEPT !.loc = l] ELSE deep_adset_done(a, l, sub.value)

\* lines 382-403
\* variation: a failed ad-set list ends the invocation
deep_after_adsets_AbortsOnFailure(a, l, text) ==
    LET d == Loads(text) IN
    IF Has(d, "error")
    THEN Return(Dumps([l.result EXCEPT !.adsets = Put(@, "error", "Error retrieving ad sets"),
                                       !.errors = <<Fmt("Adsets API error: {}",
                                                        <<Get(d, "error", "Unknown error")>>)>>]))
    ELSE IF Has(d, "data") /\ d.data # <<>>
    THEN deep_adsets_loop(a, [l EXCEPT !.result.adsets = d, !.items = d.data, !.idx = 1,
                                       !.collected = <<>>])
    ELSE deep_ads(a, [l EXCEPT !.result.adsets = Put(@, "error", "No ad sets found")])

deep_after_adsets(a, l, text) ==
    LET d == Loads(text) IN
    IF Has(d, "error")
    THEN deep_ads(a, [l EXCEPT
             !.result = [AddNote(@, Fmt("Adsets API error: {}", <<Get(d, "error", "Unknown error")>>))
                           EXCEPT !.adsets = Put(@, "error", "Error retrieving ad sets")]])
    ELSE IF Has(d, "data") /\ d.data # <<>>
    THEN deep_adsets_loop(a, [l EXCEPT !.result.adsets = d, !.items = d.data, !.idx = 1,
                                       !.collected = <<>>])
    ELSE deep_ads(a, [l EXCEPT !.result.adsets = Put(@, "error", "No ad sets found")])

\* lines 371-382
\* variation: the list of failure notes is shared by the invocations in flight
deep_resolved_SharedErrors(a, campaign_data, actual_campaign_id) ==
    LET l == [result |-> [campaign |-> campaign_data, adsets |-> [data |-> <<>>],
                          ads |-> [data |-> <<>>], ad_creatives |-> [data |-> <<>>],
                          errors |-> IF Has(parked.loc, "result") THEN parked.loc.result.errors
                                     ELSE <<>>],
              actual_campaign_id |-> actual_campaign_id,
              items |-> <<>>, idx |-> 1, collected |-> <<>>]
        sub == meta_api_tool(get_adsets_body([account_id |-> a.account_id, limit |-> PInt("10"),
                                              campaign_id |-> PStr(actual_campaign_id)]))
    IN IF sub.op = "call" THEN [sub EXCEPT !.loc = l] ELSE deep_after_adsets(a, l, sub.value)

deep_resolved(a, campaign_data, actual_campaign_id) ==
    LET l == [result |-> [campaign |-> campaign_data, adsets |-> [data |-> <<>>],
                          ads |-> [data |-> <<>>], ad_creatives |-> [data |-> <<>>],
                          errors |-> <<>>],
              actual_campaign_id |-> actual_campaign_id,
              items |-> <<>>, idx |-> 1, collected |-> <<>>]
        sub == meta_api_tool(get_adsets_body([account_id |-> a.account_id, limit |-> PInt("10"),
                                              campaign_id |-> PStr(actual_campaign_id)]))
    IN IF sub.op = "call" THEN [sub EXCEPT !.loc = l] ELSE deep_after_adsets(a, l, sub.value)

CampaignNames(data) == [i \in 1..Len(data) |-> Get(data[i], "name", "Unknown")]

\* variation: the first match of an ambiguous search is used
deep_after_campaign_FirstMatch(a, campaign_details) ==
    LET cd == Loads(campaign_details) IN
    IF Has(cd, "error") THEN Return(campaign_details)
    ELSE IF Truthy(a.name_contains) /\ (~Has(cd, "data") \/ cd.data = <<>>)
    THEN Error("Campaign not found")
    ELSE IF Truthy(a.name_contains) /\ Has(cd, "data") /\ cd.data # <<>>
    THEN deep_resolved(a, cd, cd.data[1].id)
    ELSE IF Truthy(a.campaign_id)
    THEN deep_resolved(a, IF ~Has(cd, "data") THEN [data |-> <<cd>>] ELSE cd, a.campaign_id.v)
    ELSE Error("Campaign not found")

\* lines 347-369
deep_after_campaign(a, campaign_details) ==
    LET cd == Loads(campaign_details) IN
    IF Has(cd, "error") THEN Return(campaign_details)
    ELSE IF Truthy(a.name_contains) /\ (~Has(cd, "data") \/ cd.data = <<>>)
    THEN Error("Campaign not found")
    ELSE IF Truthy(a.name_contains) /\ Has(cd, "data") /\ Len(cd.data) > 1
    THEN ErrorF("Search returned {} campaigns instead of 1. Found campaigns: {}. Please refine your search to target a single campaign.",
                <<Len(cd.data), Join(", ", CampaignNames(cd.data))>>)
    ELSE IF Truthy(a.name_contains) /\ Has(cd, "data") /\ cd.data # <<>>
    THEN deep_resolved(a, cd, cd.data[1].id)
    ELSE IF Truthy(a.campaign_id)
    THEN deep_resolved(a, IF ~Has(cd, "data") THEN [data |-> <<cd>>] ELSE cd, a.campaign_id.v)
    ELSE Error("Campaign not found")

\* lines 340-346
deep_body(a) ==
    IF ~Truthy(a.account_id) THEN Error("account_id is required")
    ELSE IF ~Truthy(a.campaign_id) /\ ~(Truthy(a.name_contains) /\ Truthy(Strip(a.name_contains)))
    THEN Error("Either campaign_id or name_contains must be provided")
    ELSE LET sub == meta_api_tool(get_campaign_details_body(
                        [account_id |-> a.account_id, campaign_id |-> a.campaign_id,
                         name_contains |-> a.name_contains]))
         IN IF sub.op = "call" THEN sub ELSE deep_after_campaign(a, sub.value)

\* the body resumes in the tool it awaits, whose return value it then handles
deep_resume(a, l, site, r) ==
    CASE site \in {"campaign", "campaign_search"} ->
           deep_after_campaign(a, meta_api_tool(get_campaign_details_resume(a, l, site, r)).value)
      [] site = "adsets" ->
           deep_after_adsets(a, l, meta_api_tool(get_adsets_resume(a, l, site, r)).value)
      [] site = "adset" ->
           deep_adset_done(a, l, meta_api_tool(get_adset_details_resume(a, l, site, r)).value)
      [] site = "ads" ->
           deep_after_ads(a, l, meta_api_tool(get_ads_resume(a, l, site, r)).value)
      [] site = "creatives" ->
           deep_creative_done(a, l, meta_api_tool(get_ad_creatives_resume(a, l, site, r)).value)

(* ---------------- campaigns.py: get_campaign_data_with_insights ---------------- *)
data_args ==
    ArgSets([account_id |-> PStr("act_1"),
             campaign_insights_fields |-> PStr("spend,actions,cost_per_action_type"),
             ad_insights_fields |-> PStr("ad_id,ad_name,spend,actions,cost_per_action_type")],
            [campaign_id |-> PNone, name_contains |-> PNone, date_preset |-> PStr("last_7d")],
            [campaign_id |-> <<PStr(""), PStr("c1")>>, name_contains |-> NameContainsValues,
             date_preset |-> <<PStr("today")>>])

KeptActions == {"lead", "landing_page_view"}
KeptCosts == {"lead"}

\* variation: the cost entries are not filtered
FilterInsight_KeepsAllCosts(insight) ==
    IF Has(insight, "actions")
    THEN [insight EXCEPT !.actions =
             SelectSeq(@, LAMBDA x : Get(x, "action_type", "None") \in KeptActions)]
    ELSE insight

\* lines 517-522 and 534-539
FilterInsight(insight) ==
    LET i1 == IF Has(insight, "actions")
              THEN [insight EXCEPT !.actions =
                       SelectSeq(@, LAMBDA x : Get(x, "action_type", "None") \in KeptActions)]
              ELSE insight
    IN IF Has(i1, "cost_per_action_type")
       THEN [i1 EXCEPT !.cost_per_action_type =
                SelectSeq(@, LAMBDA x : Get(x, "action_type", "None") \in KeptCosts)]
       ELSE i1

FilterInsights(insights) ==
    IF Has(insights, "data")
    THEN [insights EXCEPT !.data = [i \in 1..Len(@) |-> FilterInsight(@[i])]]
    ELSE insights

\* lines 514-529 and 531-546: one half of the result
InsightsHalf(sub, what) ==
    IF Get(sub, "code", 0) = 200
    THEN LET body == Get(sub, "body", Dumps([x \in {} |-> 0]))
         IN IF Parses(body) THEN FilterInsights(Loads(body))
            ELSE [error |-> Fmt("Failed to parse {} insights", <<what>>)]
    ELSE [error |-> Fmt("Batch request failed with code {}", <<Get(sub, "code", 0)>>),
          details |-> Get(sub, "body", "No response body")]

\* variation: one failed sub-response fails both halves
data_after_batch_FailsBoth(a, l, r) ==
    IF r.kind = "raise" THEN RaiseExc(r.msg)
    ELSE LET full == Len(r.data) >= 2
             bad == full /\ (Get(r.data[1], "code", 0) # 200 \/ Get(r.data[2], "code", 0) # 200)
             code == IF Get(r.data[1], "code", 0) # 200 THEN 1 ELSE 2
         IN Return(Dumps(
              [campaign_data |-> l.campaign_data,
               campaign_insights |-> IF bad THEN InsightsHalf(r.data[code], "campaign")
                                     ELSE IF full THEN InsightsHalf(r.data[1], "campaign")
                                     ELSE [data |-> <<>>],
               ad_insights |-> IF bad THEN InsightsHalf(r.data[code], "ad")
                               ELSE IF full THEN InsightsHalf(r.data[2], "ad")
                               ELSE [data |-> <<>>]]))

\* lines 508-554
data_after_batch(a, l, r) ==
    IF r.kind = "raise" THEN RaiseExc(r.msg)
    ELSE LET full == Len(r.data) >= 2
         IN Return(Dumps(
              [campaign_data |-> l.campaign_data,
               campaign_insights |-> IF full THEN InsightsHalf(r.data[1], "campaign") ELSE [data |-> <<>>],
               ad_insights |-> IF full THEN InsightsHalf(r.data[2], "ad") ELSE [data |-> <<>>]]))

\* variation: the ad-level sub-request is sent first
BatchCall_AdLevelFirst(requests, l) ==
    [op |-> "call",
     call |-> [fn |-> "make_batch_api_request", site |-> "batch",
               requests |-> <<requests[2], requests[1]>>],
     loc |-> l]

BatchCall(requests, l) ==
    [op |-> "call",
     call |-> [fn |-> "make_batch_api_request", site |-> "batch", requests |-> requests],
     loc |-> l]

\* variation: the error of the campaign step is not looked at
data_after_deep_IgnoresError(a, campaign_details) ==
    LET cd == Loads(campaign_details)
        requests(id) ==
            <<[method |-> "GET",
               relative_url |-> Fmt("{}/insights?fields={}&date_preset={}&time_increment=all_days&level=campaign",
                                    <<id, a.campaign_insights_fields.v, a.date_preset.v>>)],
              [method |-> "GET",
               relative_url |-> Fmt("{}/insights?fields={}&date_preset={}&time_increment=all_days&level=ad&limit=100",
                                    <<id, a.ad_insights_fields.v, a.date_preset.v>>)]>>
    IN IF Truthy(a.name_contains) /\ Has(Get(cd, "campaign", [x \in {} |-> 0]), "data")
       THEN BatchCall(requests(cd.campaign.data[1].id), [campaign_data |-> cd])
       ELSE IF Truthy(a.campaign_id)
       THEN BatchCall(requests(a.campaign_id.v), [campaign_data |-> cd])
       ELSE Error("Campaign not found")

\* lines 485-508
data_after_deep(a, campaign_details) ==
    LET cd == Loads(campaign_details)
        requests(id) ==
            <<[method |-> "GET",
               relative_url |-> Fmt("{}/insights?fields={}&date_preset={}&time_increment=all_days&level=campaign",
                                    <<id, a.campaign_insights_fields.v, a.date_preset.v>>)],
              [method |-> "GET",
               relative_url |-> Fmt("{}/insights?fields={}&date_preset={}&time_increment=all_days&level=ad&limit=100",
                                    <<id, a.ad_insights_fields.v, a.date_preset.v>>)]>>
    IN IF Has(cd, "error") THEN Return(campaign_details)
       ELSE IF Truthy(a.name_contains) /\ Has(Get(cd, "campaign", [x \in {} |-> 0]), "data")
       THEN BatchCall(requests(cd.campaign.data[1].id), [campaign_data |-> cd])
       ELSE IF Truthy(a.campaign_id)
       THEN BatchCall(requests(a.campaign_id.v), [campaign_data |-> cd])
       ELSE Error("Campaign not found")

\* variation: ad_insights_fields is not validated
data_body_NoAdFieldsCheck(a) ==
    IF ~Truthy(a.account_id) THEN Error("account_id is required")
    ELSE IF ~Truthy(a.campaign_id) /\ ~(Truthy(a.name_contains) /\ Truthy(Strip(a.name_contains)))
    THEN Error("Either campaign_id or name_contains must be provided")
    ELSE IF ~Truthy(a.campaign_insights_fields) THEN Error("campaign_insights_fields is required")
    ELSE LET sub == meta_api_tool(deep_body(a))
         IN IF sub.op = "call" THEN sub ELSE data_after_deep(a, sub.value)

\* lines 467-484
data_body(a) ==
    IF ~Truthy(a.account_id) THEN Error("account_id is required")
    ELSE IF ~Truthy(a.campaign_id) /\ ~(Truthy(a.name_contains) /\ Truthy(Strip(a.name_contains)))
    THEN Error("Either campaign_id or name_contains must be provided")
    ELSE IF ~Truthy(a.campaign_insights_fields) THEN Error("campaign_insights_fields is required")
    ELSE IF ~Truthy(a.ad_insights_fields) THEN Error("ad_insights_fields is required")
    ELSE LET sub == meta_api_tool(deep_body(a))
         IN IF sub.op = "call" THEN sub ELSE data_after_deep(a, sub.value)

data_resume(a, l, site, r) ==
    IF site = "batch" THEN data_after_batch(a, l, r)
    ELSE LET sub == meta_api_tool(deep_resume(a, l, site, r))
         IN IF sub.op = "call" THEN sub ELSE data_after_deep(a, sub.value)

(* ---------------- insights.py: get_insights_summary ---------------- *)
summary_args ==
    ArgSets([object_id |-> PStr("act_1")],
            [date_preset |-> PStr("last_30d"), breakdown |-> PStr(""), level |-> PStr("ad"),
             campaign_ids |-> PNone],
            [date_preset |-> <<PStr("last_7d")>>, breakdown |-> <<PStr("age")>>,
             level |-> <<PStr("campaign")>>, campaign_ids |-> <<PList("c1"), PList("[]")>>])
    \cup {[object_id |-> PStr("c1"), date_preset |-> PStr("last_30d"), breakdown |-> PStr(""),
           level |-> PStr("ad"), campaign_ids |-> PNone]}

\* float(s): amounts are counted in thousandths; ok is FALSE for ValueError
ParseFloat(s) ==
    CASE s = "10.50" -> [ok |-> TRUE, v |-> 10500]
      [] s = "4.25" -> [ok |-> TRUE, v |-> 4250]
      [] s = "0" -> [ok |-> TRUE, v |-> 0]
      [] s = "0.004" -> [ok |-> TRUE, v |-> 4]
      [] s = "-1.00" -> [ok |-> TRUE, v |-> -1000]
      [] OTHER -> [ok |-> FALSE, v |-> 0]
\* int(s); ok is FALSE for ValueError
ParseInt(s) ==
    CASE s = "2" -> [ok |-> TRUE, v |-> 2]
      [] s = "3" -> [ok |-> TRUE, v |-> 3]
      [] s = "5" -> [ok |-> TRUE, v |-> 5]
      [] s = "7" -> [ok |-> TRUE, v |-> 7]
      [] s = "-1" -> [ok |-> TRUE, v |-> -1]
      [] OTHER -> [ok |-> FALSE, v |-> 0]
\* round(x, 2) of an amount in thousandths (no amount here ends in 5)
Round2(x) == IF x >= 0 THEN ((x + 5) \div 10) * 10 ELSE 0 - (((0 - x) + 5) \div 10) * 10

StartsWithAct(s) == s \in {"act_1", "act_"}

\* `x in campaign_ids`
InList(x, list) == list.v = x

RECURSIVE SumSeq(_)
SumSeq(q) == IF q = <<>> THEN 0 ELSE Head(q) + SumSeq(Tail(q))

\* lines 185-189
SpendOf(record) ==
    IF Has(record, "spend") /\ record.spend # "" /\ ParseFloat(record.spend).ok
    THEN ParseFloat(record.spend).v ELSE 0

\* variation: every action type is counted
LeadsOf_AnyAction(record) ==
    IF Has(record, "actions")
    THEN SumSeq([i \in 1..Len(record.actions) |->
                   LET action == record.actions[i] IN
                   IF Get(action, "value", "") # "" /\ ParseInt(action.value).ok
                   THEN ParseInt(action.value).v ELSE 0])
    ELSE 0

\* lines 191-197
LeadsOf(record) ==
    IF Has(record, "actions")
    THEN SumSeq([i \in 1..Len(record.actions) |->
                   LET action == record.actions[i] IN
                   IF Get(action, "action_type", "None") = "lead" /\ Get(action, "value", "") # ""
                      /\ ParseInt(action.value).ok
                   THEN ParseInt(action.value).v ELSE 0])
    ELSE 0

\* lines 204-216
\* variation: the account id of the first row is used as it is
SummaryAccount_NoPrefix(a, rows) ==
    LET raw == IF rows # <<>> THEN Get(rows[1], "account_id", "") ELSE ""
    IN IF raw # "" THEN Fmt("{}", <<raw>>)
       ELSE IF Truthy(a.object_id) /\ StartsWithAct(a.object_id.v) THEN Fmt("{}", <<a.object_id.v>>)
       ELSE Fmt("{}", <<"">>)

SummaryAccount(a, rows) ==
    LET raw == IF rows # <<>> THEN Get(rows[1], "account_id", "") ELSE ""
        fromRow == IF raw # "" /\ ~StartsWithAct(raw) THEN Fmt("act_{}", <<raw>>) ELSE Fmt("{}", <<raw>>)
    IN IF raw # "" THEN fromRow
       ELSE IF Truthy(a.object_id) /\ StartsWithAct(a.object_id.v) THEN Fmt("{}", <<a.object_id.v>>)
       ELSE Fmt("{}", <<"">>)

summary_params(a) ==
    LET p0 == [fields |-> PStr("account_id,spend,actions"), level |-> a.level, limit |-> PInt("1000"),
               date_preset |-> a.date_preset]
        p1 == PutIf(Truthy(a.breakdown), p0, "breakdowns", a.breakdown)
    IN PutIf(a.campaign_ids # PNone, p1, "filtering",
             JsonDumps(Filtering("campaign.id", "IN", a.campaign_ids)))

summary_body(a) ==
    IF ~Truthy(a.object_id) THEN Error("No object ID provided")
    ELSE Call("summary_insights", Fmt("{}/insights", <<a.object_id.v>>), summary_params(a), "GET",
              [x \in {} |-> 0])

\* lines 229-246
CountCampaigns(a, aggregated, campaigns_data) ==
    IF Has(campaigns_data, "data")
    THEN LET counted(status) ==
                 Cardinality({i \in 1..Len(campaigns_data.data) :
                     /\ ~(a.campaign_ids # PNone
                          /\ ~InList(Get(campaigns_data.data[i], "id", "None"), a.campaign_ids))
                     /\ Get(campaigns_data.data[i], "status", "None") = status})
         IN Put(Put(aggregated, "active_campaigns", counted("ACTIVE")),
                "paused_campaigns", counted("PAUSED"))
    ELSE aggregated

\* variation: the campaign count is not inside a try block
summary_resume_UnguardedCount(a, l, site, r) ==
    IF site = "summary_insights"
    THEN IF r.kind = "raise" THEN RaiseExc(r.msg)
         ELSE IF Has(r.data, "data") /\ ~Has(r.data, "error")
         THEN LET rows == r.data.data
                  aggregated == [total_spend |-> Round2(SumSeq([i \in 1..Len(rows) |-> SpendOf(rows[i])])),
                                 total_leads |-> SumSeq([i \in 1..Len(rows) |-> LeadsOf(rows[i])])]
                  account_id == SummaryAccount(a, rows)
              IN IF account_id.args[1] # ""
                 THEN Call("campaign_count", Fmt("{}/campaigns", <<account_id>>),
                           [fields |-> PStr("id,status"),
                            effective_status |-> JsonDumps(PList("ACTIVE,PAUSED")),
                            limit |-> PInt("1000")],
                           "GET", [aggregated |-> aggregated, account_id |-> account_id])
                 ELSE Return(Dumps(aggregated))
         ELSE IF Has(r.data, "error") THEN Return(Dumps(r.data))
         ELSE Return(Dumps([error |-> Fmt("No valid data received", <<>>), raw_response |-> r.data]))
    ELSE IF r.kind = "raise" THEN RaiseExc(r.msg)
         ELSE Return(Dumps(CountCampaigns(a, l.aggregated, r.data)))

\* lines 178-263
summary_resume(a, l, site, r) ==
    IF site = "summary_insights"
    THEN IF r.kind = "raise" THEN RaiseExc(r.msg)
         ELSE IF Has(r.data, "data") /\ ~Has(r.data, "error")
         THEN LET rows == r.data.data
                  aggregated == [total_spend |-> Round2(SumSeq([i \in 1..Len(rows) |-> SpendOf(rows[i])])),
                                 total_leads |-> SumSeq([i \in 1..Len(rows) |-> LeadsOf(rows[i])])]
                  account_id == SummaryAccount(a, rows)
              IN IF account_id.args[1] # ""
                 THEN Call("campaign_count", Fmt("{}/campaigns", <<account_id>>),
                           [fields |-> PStr("id,status"),
                            effective_status |-> JsonDumps(PList("ACTIVE,PAUSED")),
                            limit |-> PInt("1000")],
                           "GET", [aggregated |-> aggregated, account_id |-> account_id])
                 ELSE Return(Dumps(aggregated))
         ELSE IF Has(r.data, "error") THEN Return(Dumps(r.data))
         ELSE Return(Dumps([error |-> Fmt("No valid data received", <<>>), raw_response |-> r.data]))
    ELSE IF r.kind = "raise"
         THEN Return(Dumps(Put(l.aggregated, "campaign_count_error",
                               [error_type |-> "Exception", error_message |-> r.msg,
                                account_id |-> l.account_id, traceback |-> "traceback"])))
         ELSE Return(Dumps(CountCampaigns(a, l.aggregated, r.data)))

(* ---------------- ads.py: update_ad_creative ---------------- *)
update_ad_creative_args ==
    ArgSets([creative_id |-> PStr("cr1")],
            [name |-> PNone, status |-> PNone, account_id |-> PNone, message |-> PNone,
             headline |-> PNone, object_story_spec |-> PNone],
            [name |-> <<PStr("Updated Creative Name")>>, status |-> <<PStr("ACTIVE")>>,
             account_id |-> <<PStr("act_1")>>, message |-> <<PStr("New message")>>,
             headline |-> <<PStr("New headline")>>, object_story_spec |-> <<PDict("story")>>])

\* variation: the message is forwarded
update_ad_creative_params_ForwardsMessage(a) ==
    LET p0 == PutIf(a.name # PNone, EmptyMap, "name", a.name)
        p1 == PutIf(a.status # PNone, p0, "status", a.status)
        p2 == PutIf(a.account_id # PNone, p1, "account_id", a.account_id)
    IN PutIf(a.message # PNone, p2, "message", a.message)

update_ad_creative_params(a) ==
    LET p0 == PutIf(a.name # PNone, EmptyMap, "name", a.name)
        p1 == PutIf(a.status # PNone, p0, "status", a.status)
    IN PutIf(a.account_id # PNone, p1, "account_id", a.account_id)

update_ad_creative_body(a) ==
    IF ~Truthy(a.creative_id) THEN Error("No creative ID provided")
    ELSE LET params == update_ad_creative_params(a) IN
         IF DOMAIN params = {} THEN Error("No update parameters provided")
         ELSE Call("update", Fmt("{}", <<a.creative_id.v>>), params, "POST", [params |-> params])

update_ad_creative_resume(a, l, site, r) ==
    IF r.kind = "raise"
    THEN Failed(Fmt("Failed to update ad creative {}", <<a.creative_id.v>>), r, l.params)
    ELSE IF site = "update"
    THEN Call("creative_details", Fmt("{}", <<a.creative_id.v>>), [fields |-> PStr("id,name,status")],
              "GET", [params |-> l.params, data |-> Put(r.data, "creative_id", a.creative_id.v)])
    ELSE Return(Dumps(l.data))

(* ---------------- running a tool ---------------- *)
\* Carry out one step of the decorated tool.
Do(step) ==
    LET s == meta_api_tool(step) IN
    CASE s.op = "call" ->
           /\ pc' = "await"
           /\ pending' = s.call
           /\ calls' = Append(calls, s.call)
           /\ loc' = s.loc
           /\ outcome' = outcome
      [] s.op = "return" ->
           /\ pc' = "done"
           /\ pending' = NoCall
           /\ calls' = calls
           /\ loc' = loc
           /\ outcome' = [kind |-> "returned", value |-> s.value]
      [] OTHER ->
           /\ pc' = "done"
           /\ pending' = NoCall
           /\ calls' = calls
           /\ loc' = loc
           /\ outcome' = [kind |-> "raised", msg |-> s.msg]

Invoke(t, a, step) ==
    /\ tool' = t
    /\ args' = a
    /\ replies' = replies
    /\ UNCHANGED <<remote, earlier, parked>>
    /\ Do(step)

Awaiting(t) == pc = "await" /\ tool = t

Resume(r, step) ==
    /\ replies' = Append(replies, r)
    /\ UNCHANGED <<tool, args, remote, earlier, parked>>
    /\ Do(step)

Call_get_campaigns ==
    /\ pc = "idle"
    /\ \E a \in get_campaigns_args : Invoke("get_campaigns", a, get_campaigns_body(a))
Resume_get_campaigns ==
    /\ Awaiting("get_campaigns")
    /\ \E r \in ShimOutcomes(pending) :
        Resume(r, get_campaigns_resume(args, loc, pending.site, r))

Call_get_campaign_details ==
    /\ pc = "idle"
    /\ \E a \in get_campaign_details_args : Invoke("get_campaign_details", a, get_campaign_details_body(a))
Resume_get_campaign_details ==
    /\ Awaiting("get_campaign_details")
    /\ \E r \in ShimOutcomes(pending) :
        Resume(r, get_campaign_details_resume(args, loc, pending.site, r))

Call_create_campaign ==
    /\ pc = "idle"
    /\ \E a \in create_campaign_args : Invoke("create_campaign", a, create_campaign_body(a))
Resume_create_campaign ==
    /\ Awaiting("create_campaign")
    /\ \E r \in ShimOutcomes(pending) :
        Resume(r, create_campaign_resume(args, loc, pending.site, r))

Call_update_campaign ==
    /\ pc = "idle"
    /\ \E a \in update_campaign_args : Invoke("update_campaign", a, update_campaign_body(a))
Resume_update_campaign ==
    /\ Awaiting("update_campaign")
    /\ \E r \in ShimOutcomes(pending) :
        Resume(r, update_campaign_resume(args, loc, pending.site, r))

Call_get_adsets ==
    /\ pc = "idle"
    /\ \E a \in get_adsets_args : Invoke("get_adsets", a, get_adsets_body(a))
Resume_get_adsets ==
    /\ Awaiting("get_adsets")
    /\ \E r \in ShimOutcomes(pending) :
        Resume(r, get_adsets_resume(args, loc, pending.site, r))

Call_get_adset_details ==
    /\ pc = "idle"
    /\ \E a \in get_adset_details_args : Invoke("get_adset_details", a, get_adset_details_body(a))
Resume_get_adset_details ==
    /\ Awaiting("get_adset_details")
    /\ \E r \in ShimOutcomes(pending) :
        Resume(r, get_adset_details_resume(args, loc, pending.site, r))

Call_create_adset ==
    /\ pc = "idle"
    /\ \E a \in create_adset_args : Invoke("create_adset", a, create_adset_body(a))
Resume_create_adset ==
    /\ Awaiting("create_adset")
    /\ \E r \in ShimOutcomes(pending) :
        Resume(r, create_adset_resume(args, loc, pending.site, r))

Call_update_adset ==
    /\ pc = "idle"
    /\ \E a \in update_adset_args : Invoke("update_adset", a, update_adset_body(a))
Resume_update_adset ==
    /\ Awaiting("update_adset")
    /\ \E r \in ShimOutcomes(pending) :
        Resume(r, update_adset_resume(args, loc, pending.site, r))

Call_get_insights ==
    /\ pc = "idle"
    /\ \E a \in get_insights_args : Invoke("get_insights", a, get_insights_body(a))
Resume_get_insights ==
    /\ Awaiting("get_insights")
    /\ \E r \in ShimOutcomes(pending) :
        Resume(r, get_insights_resume(args, loc, pending.site, r))

Call_get_complete_campaign_details_deep ==
    /\ pc = "idle"
    /\ \E a \in deep_args : Invoke("get_complete_campaign_details_deep", a, deep_body(a))
Resume_get_complete_campaign_details_deep ==
    /\ Awaiting("get_complete_campaign_details_deep")
    /\ \E r \in ShimOutcomes(pending) :
        Resume(r, deep_resume(args, loc, pending.site, r))

Call_get_campaign_data_with_insights ==
    /\ pc = "idle"
    /\ \E a \in data_args : Invoke("get_campaign_data_with_insights", a, data_body(a))
Resume_get_campaign_data_with_insights ==
    /\ Awaiting("get_campaign_data_with_insights")
    /\ \E r \in ShimOutcomes(pending) :
        Resume(r, data_resume(args, loc, pending.site, r))

Call_get_insights_summary ==
    /\ pc = "idle"
    /\ \E a \in summary_args : Invoke("get_insights_summary", a, summary_body(a))
Resume_get_insights_summary ==
    /\ Awaiting("get_insights_summary")
    /\ \E r \in ShimOutcomes(pending) :
        Resume(r, summary_resume(args, loc, pending.site, r))

Call_update_ad_creative ==
    /\ pc = "idle"
    /\ \E a \in update_ad_creative_args : Invoke("update_ad_creative", a, update_ad_creative_body(a))
Resume_update_ad_creative ==
    /\ Awaiting("update_ad_creative")
    /\ \E r \in ShimOutcomes(pending) :
        Resume(r, update_ad_creative_resume(args, loc, pending.site, r))

\* what a session remembers: the invocation before the current one, and
\* (lookup) the most recent invocation of get_campaign_details
NoLookup == [done |-> FALSE, args |-> EmptyMap, calls |-> <<>>]
NoEarlier == [tool |-> "none", args |-> EmptyMap, calls |-> <<>>, created |-> "", lookup |-> NoLookup]

\* an invocation that has not started; in a server that hosts two invocations,
\* parked is the invocation that is not running
Idle ==
    [pc |-> "idle", tool |-> "none", args |-> EmptyMap, loc |-> EmptyMap, pending |-> NoCall,
     calls |-> <<>>, replies |-> <<>>, outcome |-> [kind |-> "none"]]

\* The invocation is over; the server accepts the next one.
NextInvocation ==
    /\ pc = "done"
    /\ pc' = "idle"
    /\ tool' = "none"
    /\ args' = EmptyMap
    /\ loc' = EmptyMap
    /\ pending' = NoCall
    /\ calls' = <<>>
    /\ replies' = <<>>
    /\ outcome' = [kind |-> "none"]
    /\ UNCHANGED <<remote, earlier, parked>>

Init ==
    /\ pc = "idle"
    /\ tool = "none"
    /\ args = EmptyMap
    /\ loc = EmptyMap
    /\ pending = NoCall
    /\ calls = <<>>
    /\ replies = <<>>
    /\ outcome = [kind |-> "none"]
    /\ remote = EmptyMap
    /\ earlier = NoEarlier
    /\ parked = Idle

Next ==
    \/ Call_get_campaigns
    \/ Resume_get_campaigns
    \/ Call_get_campaign_details
    \/ Resume_get_campaign_details
    \/ Call_create_campaign
    \/ Resume_create_campaign
    \/ Call_update_campaign
    \/ Resume_update_campaign
    \/ Call_get_adsets
    \/ Resume_get_adsets
    \/ Call_get_adset_details
    \/ Resume_get_adset_details
    \/ Call_create_adset
    \/ Resume_create_adset
    \/ Call_update_adset
    \/ Resume_update_adset
    \/ Call_get_insights
    \/ Resume_get_insights
    \/ Call_get_complete_campaign_details_deep
    \/ Resume_get_complete_campaign_details_deep
    \/ Call_get_campaign_data_with_insights
    \/ Resume_get_campaign_data_with_insights
    \/ Call_get_insights_summary
    \/ Resume_get_insights_summary
    \/ Call_update_ad_creative
    \/ Resume_update_ad_creative
    \/ NextInvocation

Spec == Init /\ [][Next]_vars

(* ---------------- a session against a remote that applies updates ---------------- *)
\* The remote account: campaign id -> campaign name. It hands out its ids in
\* this order and refuses to create more than MaxCreated campaigns.
RemoteIds == <<"c9", "c10", "c11", "c12">>
SessionNames == {"Promo A", "Promo B"}

\* a POST the remote answered without an error has taken effect
ApplyPost(rem, call, reply) ==
    IF call.method # "POST" \/ reply.kind # "ok" THEN rem
    ELSE IF Has(reply.data, "error") THEN rem
    ELSE IF call.site = "create_campaign" THEN Put(rem, reply.data.id, call.params.name.v)
    ELSE IF call.site = "update" /\ call.endpoint.args[1] \in DOMAIN rem /\ Has(call.params, "name")
    THEN Put(rem, call.endpoint.args[1], call.params.name.v)
    ELSE rem

RECURSIVE ApplyPosts(_, _)
ApplyPosts(rem, i) ==
    IF i > Len(replies) THEN rem ELSE ApplyPosts(ApplyPost(rem, calls[i], replies[i]), i + 1)
\* the remote account as the answered calls of this invocation have left it
RemoteNow == ApplyPosts(remote, 1)

RemoteMatches(rem, text) ==
    LET ids == SelectSeq(RemoteIds, LAMBDA i : i \in DOMAIN rem /\ text = "Promo")
    IN [k \in 1..Len(ids) |-> Campaign(ids[k], rem[ids[k]])]

\* what the remote answers to a call
RemoteData(call) ==
    LET rem == RemoteNow
        id == call.endpoint.args[1]
    IN CASE call.site = "create_campaign" ->
              IF Cardinality(DOMAIN rem) < MaxCreated
              THEN [id |-> RemoteIds[Cardinality(DOMAIN rem) + 1]] ELSE VendorError
         [] call.site = "update" ->
              IF id \in DOMAIN rem THEN [success |-> "true"] ELSE VendorError
         [] call.site = "name" ->
              IF id \in DOMAIN rem THEN [id |-> id, name |-> rem[id]] ELSE VendorError
         [] call.site = "campaign" ->
              IF id \in DOMAIN rem THEN Campaign(id, rem[id]) ELSE VendorError
         [] call.site = "campaign_search" ->
              [data |-> RemoteMatches(rem, call.params.filtering.v)]
         [] OTHER -> VendorError
RemoteOutcomes(call) ==
    {[kind |-> "ok", data |-> RemoteData(call)], [kind |-> "raise", msg |-> "boom"]}

SessionCampaignIds == {"c1"} \cup {RemoteIds[i] : i \in 1..MaxCreated}
SessionCreateArgs ==
    {[a EXCEPT !.name = PStr(x)] :
        x \in SessionNames,
        a \in {b \in create_campaign_args :
                 /\ Truthy(b.account_id) /\ Truthy(b.name) /\ Truthy(b.objective)
                 /\ \A n \in DOMAIN b \ {"account_id", "name", "objective"} : b[n] = PNone}}
SessionUpdateArgs ==
    {[a EXCEPT !.campaign_id = PStr(i), !.name = x] :
        i \in SessionCampaignIds,
        x \in {PNone} \cup {PStr(n) : n \in SessionNames},
        a \in {b \in update_campaign_args :
                 /\ Truthy(b.campaign_id)
                 /\ \A n \in DOMAIN b \ {"campaign_id", "status"} : b[n] = PNone}}
SessionDetailsArgs ==
    {[a EXCEPT !.campaign_id = c] :
        c \in {PNone, PStr("c1"), PStr(RemoteIds[1])},
        a \in {b \in get_campaign_details_args : Truthy(b.account_id) /\ b.campaign_id = PNone}}

Session_create_campaign ==
    /\ pc = "idle"
    /\ \E a \in SessionCreateArgs : Invoke("create_campaign", a, create_campaign_body(a))
Remote_create_campaign ==
    /\ Awaiting("create_campaign")
    /\ \E r \in RemoteOutcomes(pending) :
        Resume(r, create_campaign_resume(args, loc, pending.site, r))
Session_update_campaign ==
    /\ pc = "idle"
    /\ \E a \in SessionUpdateArgs : Invoke("update_campaign", a, update_campaign_body(a))
Remote_update_campaign ==
    /\ Awaiting("update_campaign")
    /\ \E r \in RemoteOutcomes(pending) :
        Resume(r, update_campaign_resume(args, loc, pending.site, r))
Session_get_campaign_details ==
    /\ pc = "idle"
    /\ \E a \in SessionDetailsArgs : Invoke("get_campaign_details", a, get_campaign_details_body(a))
Remote_get_campaign_details ==
    /\ Awaiting("get_campaign_details")
    /\ \E r \in RemoteOutcomes(pending) :
        Resume(r, get_campaign_details_resume(args, loc, pending.site, r))

\* the id a finished create_campaign returned, "" if it returned none
CreatedId ==
    IF tool = "create_campaign" /\ outcome.kind = "returned" /\ Has(Loads(outcome.value), "id")
    THEN Loads(outcome.value).id ELSE ""

\* The invocation is over: the remote keeps what it applied and the session
\* goes on to its next invocation.
SessionNextInvocation ==
    /\ pc = "done"
    /\ remote' = RemoteNow
    /\ parked' = parked
    /\ earlier' = [tool |-> tool, args |-> args, calls |-> calls, created |-> CreatedId,
                   lookup |-> IF tool = "get_campaign_details"
                              THEN [done |-> TRUE, args |-> args, calls |-> calls]
                              ELSE earlier.lookup]
    /\ pc' = "idle"
    /\ tool' = "none"
    /\ args' = EmptyMap
    /\ loc' = EmptyMap
    /\ pending' = NoCall
    /\ calls' = <<>>
    /\ replies' = <<>>
    /\ outcome' = [kind |-> "none"]

SessionNext ==
    \/ Session_create_campaign
    \/ Remote_create_campaign
    \/ Session_update_campaign
    \/ Remote_update_campaign
    \/ Session_get_campaign_details
    \/ Remote_get_campaign_details
    \/ SessionNextInvocation

Session == Init /\ [][SessionNext]_vars

(* ---------------- two invocations in flight ---------------- *)
\* The event loop runs one coroutine at a time. The variables pc .. outcome
\* belong to the invocation that is running, parked is the one that is
\* suspended at its outbound call (or has not started, or has returned).
Running ==
    [pc |-> pc, tool |-> tool, args |-> args, loc |-> loc, pending |-> pending,
     calls |-> calls, replies |-> replies, outcome |-> outcome]

ConcurrentDeepArgs ==
    {a \in deep_args : Truthy(a.account_id) /\ a.campaign_id \in {PNone, PStr("c1")}
                        /\ a.name_contains \in {PNone, PStr("Promo")}}
ConcurrentSummaryArgs ==
    {a \in summary_args : Truthy(a.object_id) /\ a.campaign_ids = PNone /\ a.breakdown = PStr("")
                           /\ a.level = PStr("ad") /\ a.date_preset = PStr("last_30d")}
\* a call is answered with an object that is not an error, or it raises
ConcurrentOutcomes(call) ==
    {r \in ShimOutcomes(call) :
        r.kind = "ok" =>
            /\ ~Has(r.data, "error")
            /\ Has(r.data, "data") => Len(r.data.data) <= ConcurrentItems}

Concurrent_deep ==
    /\ pc = "idle"
    /\ \E a \in ConcurrentDeepArgs : Invoke("get_complete_campaign_details_deep", a, deep_body(a))
Answer_deep ==
    /\ Awaiting("get_complete_campaign_details_deep")
    /\ \E r \in ConcurrentOutcomes(pending) :
        Resume(r, deep_resume(args, loc, pending.site, r))
Concurrent_summary ==
    /\ pc = "idle"
    /\ \E a \in ConcurrentSummaryArgs : Invoke("get_insights_summary", a, summary_body(a))
Answer_summary ==
    /\ Awaiting("get_insights_summary")
    /\ \E r \in ConcurrentOutcomes(pending) :
        Resume(r, summary_resume(args, loc, pending.site, r))

\* The running coroutine is suspended at its call (or is not in a body at
\* all) and the event loop turns to the other invocation.
Switch ==
    /\ parked' = Running
    /\ pc' = parked.pc
    /\ tool' = parked.tool
    /\ args' = parked.args
    /\ loc' = parked.loc
    /\ pending' = parked.pending
    /\ calls' = parked.calls
    /\ replies' = parked.replies
    /\ outcome' = parked.outcome
    /\ UNCHANGED <<remote, earlier>>

ConcurrentNext ==
    \/ Concurrent_deep
    \/ Answer_deep
    \/ Concurrent_summary
    \/ Answer_summary
    \/ Switch
    \/ NextInvocation

Concurrent == Init /\ [][ConcurrentNext]_vars

(* ---------------- what a finished invocation shows ---------------- *)
Orchestrators == {"get_complete_campaign_details_deep", "get_campaign_data_with_insights"}
MutatingTools == {"create_campaign", "create_adset", "update_campaign", "update_adset"}
Returned == pc = "done" /\ outcome.kind = "returned" /\ Parses(outcome.value)
Result == Loads(outcome.value)
Blank(x) == x = PNone \/ x = PStr("")
NonBlankText(x) == x.t = "str" /\ x.v \notin {"", " ", "  "}
AnyRaised == \E i \in 1..Len(replies) : replies[i].kind = "raise"
\* the tool that issued call i answered its caller with an error object
ReplyFailed(i) == replies[i].kind = "raise" \/ Has(replies[i].data, "error")
IndexesOf(site) == {i \in 1..Len(replies) : calls[i].site = site}

\* the envelope get_complete_campaign_details_deep built in this invocation
HasDeepResult ==
    /\ Returned
    /\ \/ tool = "get_complete_campaign_details_deep" /\ ~Has(Result, "error")
       \/ tool = "get_campaign_data_with_insights" /\ Has(Result, "campaign_data")
DeepResult ==
    IF tool = "get_complete_campaign_details_deep" THEN Result ELSE Result.campaign_data

\* the campaigns the name search matched
Matches ==
    IF Len(replies) >= 1 /\ calls[1].site = "campaign_search" /\ replies[1].kind = "ok"
       /\ Has(replies[1].data, "data")
    THEN replies[1].data.data ELSE <<>>
\* the ad sets the list call returned
ListedAdsets ==
    IF \E i \in IndexesOf("adsets") : ~ReplyFailed(i) /\ Has(replies[i].data, "data")
    THEN replies[CHOOSE i \in IndexesOf("adsets") : TRUE].data.data ELSE <<>>
ListedAds ==
    IF \E i \in IndexesOf("ads") : ~ReplyFailed(i) /\ Has(replies[i].data, "data")
    THEN replies[CHOOSE i \in IndexesOf("ads") : TRUE].data.data ELSE <<>>
DetailFailed(id) ==
    \E i \in IndexesOf("adset") : calls[i].endpoint.args[1] = id /\ ReplyFailed(i)
DetailSucceeded(id) ==
    \E i \in IndexesOf("adset") : calls[i].endpoint.args[1] = id /\ ~ReplyFailed(i)
CreativesSucceeded(adId) ==
    \E i \in IndexesOf("creatives") :
        calls[i].endpoint.args[1] = adId /\ ~ReplyFailed(i) /\ Has(replies[i].data, "data")
\* the replies for which the orchestrator has to record a failure note
NotedReplies ==
    {i \in 1..Len(replies) :
        \/ calls[i].site \in {"adsets", "adset", "ads"} /\ ReplyFailed(i)
        \/ calls[i].site = "creatives" /\ (ReplyFailed(i) \/ ~Has(replies[i].data, "data"))}
ItemNotes(notes, id) ==
    {k \in 1..Len(notes) :
        /\ notes[k].tpl \in {"Adset details error for {}: {}", "Ad creatives error for ad {}: {}"}
        /\ notes[k].args[1] = id}
Ids(items) == [i \in 1..Len(items) |-> items[i].id]
AmbiguityTemplate == "Search returned {} campaigns instead of 1. Found campaigns: {}. Please refine your search to target a single campaign."

(* ---------------- C1 ---------------- *)
RequiredArguments(t) ==
    CASE t = "create_campaign" -> {"account_id", "name", "objective"}
      [] t = "create_adset" -> {"account_id", "campaign_id", "name", "optimization_goal", "billing_event"}
      [] t = "update_campaign" -> {"campaign_id"}
      [] t \in {"update_adset", "get_adset_details"} -> {"adset_id"}
      [] t \in {"get_campaigns", "get_adsets", "get_campaign_details",
                "get_complete_campaign_details_deep"} -> {"account_id"}
      [] t \in {"get_insights", "get_insights_summary"} -> {"object_id"}
      [] t = "get_campaign_data_with_insights" ->
           {"account_id", "campaign_insights_fields", "ad_insights_fields"}
      [] OTHER -> {}
MissingRequired == \E n \in RequiredArguments(tool) : Blank(args[n])

\* C1: an invocation with a required argument missing or empty returns an
\* object with an error key and issues no outbound call, neither a request
\* nor a batch request.
C1_MissingRequiredArgumentIsRejected ==
    MissingRequired =>
        /\ calls = <<>>
        /\ pc = "done"
        /\ Returned
        /\ Has(Result, "error")

C1_Witness ==
    /\ pc = "done"
    /\ tool = "get_campaign_data_with_insights"
    /\ args.account_id = PStr("act_1")
    /\ args.campaign_id = PStr("c1")
    /\ ~Blank(args.campaign_insights_fields)
    /\ args.ad_insights_fields = PNone
    /\ calls = <<>>
    /\ Has(Result, "error")

(* ---------------- C2 ---------------- *)
\* C2 as stated: every invocation returns JSON text, and whenever a shim call
\* raised the returned object has an error key.
C2_RaiseAlwaysYieldsErrorKey ==
    pc = "done" =>
        /\ Returned
        /\ AnyRaised => Has(Result, "error")

\* the calls whose failure the caller records and survives
RecordedSite(t, site) ==
    \/ t \in Orchestrators /\ site \in {"adsets", "adset", "ads", "creatives"}
    \/ t = "get_insights_summary" /\ site = "campaign_count"
TerminalRaised ==
    \E i \in 1..Len(replies) : replies[i].kind = "raise" /\ ~RecordedSite(tool, calls[i].site)
RecordedRaised ==
    \E i \in 1..Len(replies) : replies[i].kind = "raise" /\ RecordedSite(tool, calls[i].site)

\* C2 (amended): every invocation ends by returning JSON text and no exception
\* escapes. A raised shim call yields an object with an error key, except a
\* raise of an ad-set list, ad-set detail, ad list or creative call of the
\* orchestrators (noted in errors) or of the campaign-count call of
\* get_insights_summary (noted in campaign_count_error).
C2_NoExceptionEscapes ==
    pc = "done" =>
        /\ Returned
        /\ TerminalRaised => Has(Result, "error")
        /\ (RecordedRaised /\ ~TerminalRaised) =>
              /\ ~Has(Result, "error")
              /\ tool \in Orchestrators => Has(DeepResult, "errors")
              /\ tool = "get_insights_summary" => Has(Result, "campaign_count_error")

C2_Witness ==
    /\ pc = "done"
    /\ tool = "get_campaign_details"
    /\ AnyRaised
    /\ Returned
    /\ Has(Result, "error")

(* ---------------- C3 ---------------- *)
\* C3: when the ad-set list call returned two ad sets and the detail call
\* failed for exactly one of them, adsets.data holds exactly the one detailed
\* ad set, exactly one message of errors names the failed ad set (and it is
\* the only message when nothing else failed), and there is no top-level
\* error key.
C3_OneOfTwoDetailsFails ==
    (HasDeepResult /\ Len(ListedAdsets) = 2) =>
        \A f \in {1, 2} :
            LET failed == ListedAdsets[f].id
                good == ListedAdsets[3 - f].id
            IN (DetailFailed(failed) /\ DetailSucceeded(good)) =>
                  /\ Len(DeepResult.adsets.data) = 1
                  /\ DeepResult.adsets.data[1].id = good
                  /\ Has(DeepResult.adsets.data[1], "name")
                  /\ Has(DeepResult, "errors")
                  /\ Cardinality(ItemNotes(DeepResult.errors, failed)) = 1
                  /\ Cardinality(NotedReplies) = 1 => Len(DeepResult.errors) = 1
                  /\ ~Has(Result, "error")

C3_Witness ==
    /\ HasDeepResult
    /\ tool = "get_complete_campaign_details_deep"
    /\ Len(ListedAdsets) = 2
    /\ \E i \in IndexesOf("adset") : calls[i].endpoint.args[1] = "as1" /\ replies[i].kind = "raise"
    /\ DetailSucceeded("as2")
    /\ Len(Result.adsets.data) = 1
    /\ Len(Result.errors) = 1

(* ---------------- C4 ---------------- *)
\* C4: adsets.data holds exactly the ad sets whose detail call succeeded, and
\* ad_creatives.data exactly the creatives of the ads whose creative call
\* succeeded, whatever subset of the per-item calls failed.
C4_FailedItemsNeverCollected ==
    HasDeepResult =>
        /\ Ids(DeepResult.adsets.data) = SelectSeq(Ids(ListedAdsets), DetailSucceeded)
        /\ [i \in 1..Len(DeepResult.ad_creatives.data) |-> DeepResult.ad_creatives.data[i].ad_id]
              = SelectSeq(Ids(ListedAds), CreativesSucceeded)

(* ---------------- C5 ---------------- *)
\* C5: with a non-blank name_contains the orchestrator goes on only when the
\* search matched exactly one campaign; zero matches give "Campaign not
\* found", N > 1 matches give an error stating N and the N names, and in both
\* cases no further call is made for any match.
C5_NameSearchNeedsOneMatch ==
    (/\ tool \in Orchestrators
     /\ NonBlankText(args.name_contains)
     /\ Len(replies) >= 1
     /\ ~ReplyFailed(1)) =>
        LET n == Len(Matches) IN
        /\ n = 0 => /\ Returned
                    /\ Result = [error |-> Fmt("Campaign not found", <<>>)]
                    /\ Len(calls) = 1
        /\ n > 1 => /\ Returned
                    /\ Has(Result, "error")
                    /\ Result.error.tpl = AmbiguityTemplate
                    /\ Result.error.args[1] = n
                    /\ Result.error.args[2].parts = [i \in 1..n |-> Matches[i].name]
                    /\ Len(calls) = 1
        /\ n = 1 => /\ Len(calls) >= 2
                    /\ calls[2].site = "adsets"
                    /\ calls[2].endpoint.args[1] = Matches[1].id

C5_Witness ==
    /\ tool = "get_complete_campaign_details_deep"
    /\ Returned
    /\ NonBlankText(args.name_contains)
    /\ Len(Matches) = 2
    /\ Has(Result, "error")
    /\ Result.error.args[1] = 2

(* ---------------- C6 ---------------- *)
TwoMatchSearch ==
    /\ pc = "done"
    /\ Len(replies) = 1
    /\ Len(Matches) = 2

\* C6 as stated: get_campaign_details answers a search that matched two
\* campaigns with the "Search returned 2 campaigns instead of 1" error.
C6_DetailsRejectsAmbiguousSearch ==
    (tool = "get_campaign_details" /\ TwoMatchSearch) =>
        /\ Returned
        /\ Has(Result, "error")
        /\ Result.error.tpl = AmbiguityTemplate
        /\ Result.error.args[1] = 2

\* C6 (amended): get_campaign_details returns the two matched campaigns as
\* data, unchanged and without an error key; the "Search returned 2 campaigns
\* instead of 1" error listing the names is what the orchestrators return
\* for that search.
C6_DetailsPassesMatchesThrough ==
    /\ (tool = "get_campaign_details" /\ TwoMatchSearch) =>
          /\ Returned
          /\ ~Has(Result, "error")
          /\ Result = replies[1].data
          /\ Ids(Result.data) = Ids(Matches)
    /\ (tool \in Orchestrators /\ TwoMatchSearch) =>
          /\ Returned
          /\ Has(Result, "error")
          /\ Result.error.tpl = AmbiguityTemplate
          /\ Result.error.args[2].parts = <<Matches[1].name, Matches[2].name>>

C6_Witness ==
    /\ tool = "get_campaign_details"
    /\ TwoMatchSearch
    /\ Returned
    /\ Len(Result.data) = 2

(* ---------------- C7 ---------------- *)
CampaignStepFailed ==
    /\ Len(replies) >= 1
    /\ \/ ReplyFailed(1)
       \/ calls[1].site = "campaign_search" /\ Len(Matches) # 1

\* C7: in both orchestrators a failure to resolve or fetch the campaign (an
\* error in the campaign response, zero matches, more than one match) ends
\* the invocation with that error object alone, and no further call (ad-set
\* list, ad-set detail, ad list, creative, batch) is issued.
C7_CampaignFailureIsTerminal ==
    (tool \in Orchestrators /\ CampaignStepFailed) =>
        /\ Len(calls) = 1
        /\ Returned
        /\ DOMAIN Result = {"error"}
        /\ (replies[1].kind = "ok" /\ Has(replies[1].data, "error")) => Result = replies[1].data

C7_Witness ==
    /\ tool = "get_campaign_data_with_insights"
    /\ Returned
    /\ Len(calls) = 1
    /\ calls[1].site = "campaign"
    /\ ReplyFailed(1)
    /\ DOMAIN Result = {"error"}

(* ---------------- C8 ---------------- *)
\* C8: every non-error result of get_complete_campaign_details_deep has the
\* keys campaign, adsets, ads and ad_creatives, and has the key errors exactly
\* when a failure note was recorded; errors is never an empty list.
C8_ErrorsKeyOnlyWhenNotesExist ==
    HasDeepResult =>
        /\ {"campaign", "adsets", "ads", "ad_creatives"} \subseteq DOMAIN DeepResult
        /\ Has(DeepResult, "errors") <=> NotedReplies # {}
        /\ Has(DeepResult, "errors") => Len(DeepResult.errors) = Cardinality(NotedReplies)

C8_Witness ==
    /\ HasDeepResult
    /\ tool = "get_complete_campaign_details_deep"
    /\ NotedReplies = {}
    /\ Len(ListedAdsets) >= 1
    /\ ~Has(Result, "errors")

(* ---------------- C9 ---------------- *)
\* C9: when the shim raises during create_campaign, create_adset,
\* update_campaign or update_adset, the tool returns exactly the keys error,
\* details and params_sent; details is str(exception) and params_sent is the
\* parameter mapping passed to the mutating POST.
C9_FailedMutationReportsParams ==
    (tool \in MutatingTools /\ pc = "done" /\ AnyRaised) =>
        /\ Returned
        /\ DOMAIN Result = {"error", "details", "params_sent"}
        /\ Result.details = replies[Len(replies)].msg
        /\ calls[1].method = "POST"
        /\ Result.params_sent = calls[1].params

C9_Witness ==
    /\ tool = "update_campaign"
    /\ pc = "done"
    /\ Len(replies) = 2
    /\ replies[2].kind = "raise"
    /\ Result.params_sent = calls[1].params

(* ---------------- C10 ---------------- *)
CreativeUpdateKeys == {"name", "status", "account_id"}

\* C10: whatever arguments update_ad_creative is given, the parameter mapping
\* of its mutating call has only keys among name, status and account_id;
\* never object_story_spec, message or headline.
C10_CreativeUpdateSendsMetadataOnly ==
    tool = "update_ad_creative" =>
        \A i \in 1..Len(calls) :
            calls[i].method = "POST" => DOMAIN calls[i].params \subseteq CreativeUpdateKeys

C10_Witness ==
    /\ tool = "update_ad_creative"
    /\ Len(calls) >= 1
    /\ calls[1].method = "POST"
    /\ args.message # PNone
    /\ args.name # PNone

(* ---------------- C11 ---------------- *)
AllCallsSucceeded ==
    /\ Len(replies) = Len(calls)
    /\ \A i \in 1..Len(replies) : replies[i].kind = "ok" /\ ~Has(replies[i].data, "error")
RenamesCreated ==
    /\ tool = "update_campaign"
    /\ pc = "done"
    /\ earlier.tool = "create_campaign"
    /\ earlier.created # ""
    /\ args.campaign_id = PStr(earlier.created)
    /\ args.name # PNone
    /\ calls # <<>>
    /\ AllCallsSucceeded

\* C11: against a remote that applies updates, when create_campaign returned
\* id I and the next invocation is update_campaign(campaign_id=I, name=X) whose
\* calls all succeed, the response has name X and campaign_id I.
C11_CreateThenRenameRoundTrip ==
    RenamesCreated =>
        /\ Returned
        /\ Has(Result, "name")
        /\ Result.name = args.name.v
        /\ Has(Result, "campaign_id")
        /\ Result.campaign_id = earlier.created

C11_Witness ==
    /\ RenamesCreated
    /\ earlier.created = RemoteIds[2]
    /\ earlier.args.name = PStr("Promo A")
    /\ args.name = PStr("Promo B")
    /\ Result.name = "Promo B"
    /\ Result.campaign_id = RemoteIds[2]

(* ---------------- C12 ---------------- *)
\* the amounts and counts the fetched rows carry in well-formed form
SpendAmounts == [s \in {"10.50", "4.25", "0", "0.004", "-1.00"} |->
                    CASE s = "10.50" -> 10500 [] s = "4.25" -> 4250 [] s = "0" -> 0
                      [] s = "0.004" -> 4 [] OTHER -> -1000]
LeadCounts == [s \in {"2", "3", "5", "7", "-1"} |->
                  CASE s = "2" -> 2 [] s = "3" -> 3 [] s = "5" -> 5 [] s = "7" -> 7 [] OTHER -> -1]
RowSpend(row) ==
    IF Has(row, "spend") THEN (IF row.spend \in DOMAIN SpendAmounts THEN SpendAmounts[row.spend] ELSE 0)
    ELSE 0
EntryLeads(entry) ==
    IF Has(entry, "action_type") /\ Has(entry, "value")
    THEN (IF entry.action_type = "lead" /\ entry.value \in DOMAIN LeadCounts
          THEN LeadCounts[entry.value] ELSE 0)
    ELSE 0
RowLeads(row) ==
    IF Has(row, "actions") THEN SumSeq([i \in 1..Len(row.actions) |-> EntryLeads(row.actions[i])])
    ELSE 0
SpendSum(rows) == SumSeq([i \in 1..Len(rows) |-> RowSpend(rows[i])])
LeadSum(rows) == SumSeq([i \in 1..Len(rows) |-> RowLeads(rows[i])])
NonNegativeRows(rows) ==
    \A i \in 1..Len(rows) :
        /\ RowSpend(rows[i]) >= 0
        /\ Has(rows[i], "actions") => \A k \in 1..Len(rows[i].actions) : EntryLeads(rows[i].actions[k]) >= 0

\* get_insights_summary has fetched a row set
RowsFetched ==
    /\ tool = "get_insights_summary"
    /\ pc = "done"
    /\ Len(replies) >= 1
    /\ replies[1].kind = "ok"
    /\ Has(replies[1].data, "data")
    /\ ~Has(replies[1].data, "error")
FetchedRows == replies[1].data.data

\* C12 as stated: total_spend equals the sum of the well-formed spends and
\* total_leads the sum of the well-formed lead values; missing or malformed
\* values contribute zero and never fail the aggregation; non-negative inputs
\* give non-negative totals.
C12_TotalsAreExactSums ==
    RowsFetched =>
        /\ Returned
        /\ ~Has(Result, "error")
        /\ Result.total_spend = SpendSum(FetchedRows)
        /\ Result.total_leads = LeadSum(FetchedRows)
        /\ NonNegativeRows(FetchedRows) => (Result.total_spend >= 0 /\ Result.total_leads >= 0)

\* C12 (amended): total_spend equals the sum of the well-formed spends rounded
\* to two decimal places, and total_leads equals the sum of the well-formed
\* lead values; missing or malformed values contribute zero and never fail
\* the aggregation; non-negative inputs give non-negative totals.
C12_TotalsAreRoundedSums ==
    RowsFetched =>
        /\ Returned
        /\ ~Has(Result, "error")
        /\ Result.total_spend = Round2(SpendSum(FetchedRows))
        /\ Result.total_leads = LeadSum(FetchedRows)
        /\ NonNegativeRows(FetchedRows) => (Result.total_spend >= 0 /\ Result.total_leads >= 0)

C12_Witness ==
    /\ RowsFetched
    /\ FetchedRows = <<LeadRow, BadRow>>
    /\ Result.total_spend = 10500
    /\ Result.total_leads = 2

(* ---------------- C13 ---------------- *)
\* get_campaign_data_with_insights has received a batch response of two
\* sub-responses
BatchAnswered ==
    /\ tool = "get_campaign_data_with_insights"
    /\ pc = "done"
    /\ calls # <<>>
    /\ Len(replies) = Len(calls)
    /\ calls[Len(calls)].site = "batch"
    /\ replies[Len(replies)].kind = "ok"
    /\ Len(replies[Len(replies)].data) = 2
BatchResponse == replies[Len(replies)].data
HalfKey(h) == IF h = 1 THEN "campaign_insights" ELSE "ad_insights"
HalfName(h) == IF h = 1 THEN "campaign" ELSE "ad"
SubRefused(sub) == sub.code # 200
SubUnparseable(sub) == sub.code = 200 /\ "text" \notin DOMAIN sub.body
AnsweredSub == [code |-> 200, body |-> Dumps([data |-> <<MixedRow, BareRow>>])]
\* what the tool returns when sub-response h is answered instead
ResultIfAnswered(h) ==
    Loads(meta_api_tool(data_resume(args, loc, "batch",
              [kind |-> "ok", data |-> [BatchResponse EXCEPT ![h] = AnsweredSub]])).value)

\* C13: a batch sub-response that is refused (non-200) or cannot be parsed
\* turns only its own half into an error object, {error, details} or {error:
\* "Failed to parse ..."}; the other half and campaign_data are what they are
\* when that sub-response is answered, and there is no top-level error key.
C13_FailedHalfIsIsolated ==
    BatchAnswered =>
        \A h \in {1, 2} :
            LET sub == BatchResponse[h]
                half == Result[HalfKey(h)]
                other == HalfKey(3 - h)
            IN /\ SubRefused(sub) =>
                    /\ DOMAIN half = {"error", "details"}
                    /\ half.error = Fmt("Batch request failed with code {}", <<sub.code>>)
                    /\ half.details = sub.body
               /\ SubUnparseable(sub) =>
                    /\ DOMAIN half = {"error"}
                    /\ half.error = Fmt("Failed to parse {} insights", <<HalfName(h)>>)
               /\ (SubRefused(sub) \/ SubUnparseable(sub)) =>
                    /\ Result[other] = ResultIfAnswered(h)[other]
                    /\ Result.campaign_data = ResultIfAnswered(h).campaign_data
                    /\ DOMAIN Result = {"campaign_data", "campaign_insights", "ad_insights"}

C13_Witness ==
    /\ BatchAnswered
    /\ SubRefused(BatchResponse[1])
    /\ BatchResponse[2] = AnsweredSub
    /\ Has(Result.campaign_insights, "details")
    /\ Has(Result.ad_insights, "data")
    /\ Len(Result.ad_insights.data) = 2

(* ---------------- C14 ---------------- *)
SubAnswered(sub) == sub.code = 200 /\ "text" \in DOMAIN sub.body /\ Has(sub.body.text, "data")
OfTypes(entries, types) ==
    SelectSeq(entries, LAMBDA x : Has(x, "action_type") /\ x.action_type \in types)
\* the arrays of the returned rows of half h are the entries of the fetched
\* rows with an action type among actionTypes, resp. costTypes
RowsFiltered(h, actionTypes, costTypes) ==
    LET fetched == BatchResponse[h].body.text.data
        returned == Result[HalfKey(h)].data
    IN /\ Len(returned) = Len(fetched)
       /\ \A i \in 1..Len(fetched) :
            /\ Has(fetched[i], "actions") =>
                  returned[i].actions = OfTypes(fetched[i].actions, actionTypes)
            /\ Has(fetched[i], "cost_per_action_type") =>
                  returned[i].cost_per_action_type = OfTypes(fetched[i].cost_per_action_type, costTypes)

\* C14 as stated: in every row of a successful sub-result, actions and
\* cost_per_action_type each hold exactly the fetched entries of type lead or
\* landing_page_view, in their original order.
C14_BothArraysKeepLeadAndLandingPageView ==
    BatchAnswered =>
        \A h \in {1, 2} :
            SubAnswered(BatchResponse[h]) =>
                RowsFiltered(h, {"lead", "landing_page_view"}, {"lead", "landing_page_view"})

\* C14 (amended): in every row of a successful sub-result, actions holds
\* exactly the fetched entries of type lead or landing_page_view and
\* cost_per_action_type holds exactly the fetched entries of type lead, each
\* in their original order.
C14_CostsKeepLeadOnly ==
    BatchAnswered =>
        \A h \in {1, 2} :
            SubAnswered(BatchResponse[h]) =>
                RowsFiltered(h, {"lead", "landing_page_view"}, {"lead"})

C14_Witness ==
    /\ BatchAnswered
    /\ SubAnswered(BatchResponse[2])
    /\ BatchResponse[2].body.text.data[1] = MixedRow
    /\ Len(Result.ad_insights.data[1].actions) = 3
    /\ Len(Result.ad_insights.data[1].cost_per_action_type) = 1

(* ---------------- C15 ---------------- *)
CountFailed ==
    /\ RowsFetched
    /\ Len(replies) = 2
    /\ calls[2].site = "campaign_count"
    /\ replies[2].kind = "raise"

InsightsFetched ==
    /\ tool = "get_insights"
    /\ pc = "done"
    /\ Len(replies) = 1
    /\ replies[1].kind = "ok"
    /\ Has(replies[1].data, "data")
    /\ ~Has(replies[1].data, "error")
SummaryAlone ==
    RowsFetched =>
        /\ Returned
        /\ ~Has(Result, "data")
        /\ {"total_spend", "total_leads"} \subseteq DOMAIN Result
        /\ DOMAIN Result \subseteq {"total_spend", "total_leads", "active_campaigns",
                                    "paused_campaigns", "campaign_count_error"}

\* C16 as stated: get_insights returns the fetched row set unchanged
\* together with a merged aggregated_results object, and
\* get_insights_summary returns the aggregated object alone, without the rows.
C16_InsightsCarriesAggregatedResults ==
    /\ InsightsFetched =>
          /\ Returned
          /\ Has(Result, "data")
          /\ Result.data = replies[1].data.data
          /\ Has(Result, "aggregated_results")
    /\ SummaryAlone

\* C16 (amended): get_insights returns the fetched response unchanged, the
\* row set with nothing added (no aggregated_results), and
\* get_insights_summary returns the aggregated object alone, without the rows.
C16_InsightsReturnsRowsOnly ==
    /\ InsightsFetched =>
          /\ Returned
          /\ Result = replies[1].data
          /\ ~Has(Result, "aggregated_results")
    /\ SummaryAlone

C16_Witness ==
    /\ InsightsFetched
    /\ Returned
    /\ Len(Result.data) = 1
    /\ DOMAIN Result = {"data"}

(* ---------------- C17 ---------------- *)
\* C17: every mutating call issued by create_campaign carries status PAUSED,
\* whatever arguments the caller supplies.
C17_CreatedCampaignsArePaused ==
    tool = "create_campaign" =>
        \A i \in 1..Len(calls) :
            calls[i].method = "POST" =>
                /\ Has(calls[i].params, "status")
                /\ calls[i].params.status = PStr("PAUSED")

C17_Witness ==
    /\ tool = "create_campaign"
    /\ Len(calls) = 1
    /\ calls[1].method = "POST"
    /\ args.daily_budget # PNone
    /\ args.bid_strategy # PNone
    /\ calls[1].params.status = PStr("PAUSED")

(* ---------------- C18 ---------------- *)
RepeatedLookup ==
    /\ tool = "get_campaign_details"
    /\ earlier.lookup.done
    /\ earlier.lookup.args = args

UpdateIssued == tool = "update_campaign" /\ calls # <<>>
\* parameter k of the POST carries the text of argument k, and is absent when
\* the argument was not supplied
ForwardedAsGiven(k) ==
    IF args[k] = PNone THEN ~Has(calls[1].params, k)
    ELSE /\ Has(calls[1].params, k)
         /\ calls[1].params[k].t = "str"
         /\ calls[1].params[k].v = args[k].v

UpdateTools == {"update_campaign", "update_adset"}

ListedAt(i) ==
    IF Len(replies) >= i /\ ~ReplyFailed(i) /\ Has(replies[i].data, "data")
    THEN replies[i].data.data ELSE <<>>
AdsetListIndex == 2
AdListIndex == 3 + Len(ListedAt(AdsetListIndex))
\* call i of get_complete_campaign_details_deep is the call its place in the
\* fixed order asks for
InDeepOrder(i) ==
    LET c == calls[i] IN
    /\ c.fn = "make_api_request"
    /\ c.method = "GET"
    /\ CASE i = 1 -> c.site \in {"campaign", "campaign_search"}
         [] i = AdsetListIndex -> c.site = "adsets"
         [] i > AdsetListIndex /\ i < AdListIndex ->
              /\ c.site = "adset"
              /\ c.endpoint.args[1] = ListedAt(AdsetListIndex)[i - AdsetListIndex].id
         [] i = AdListIndex -> c.site = "ads"
         [] i > AdListIndex /\ i <= AdListIndex + Len(ListedAt(AdListIndex)) ->
              /\ c.site = "creatives"
              /\ c.endpoint.args[1] = ListedAt(AdListIndex)[i - AdListIndex].id
         [] OTHER -> FALSE
BothListsSucceeded ==
    /\ Len(replies) >= AdListIndex
    /\ ~ReplyFailed(AdsetListIndex)
    /\ ~ReplyFailed(AdListIndex)

\* C21: get_complete_campaign_details_deep issues its calls one at a time in
\* the order campaign detail, ad-set list, one detail call per listed ad set
\* in list order, ad list, one creative call per listed ad in list order;
\* at most one call is outstanding, and when both list calls succeed the
\* finished invocation has issued 3 + listed ad sets + listed ads calls.
C21_DeepCallsAreSequentialAndOrdered ==
    tool = "get_complete_campaign_details_deep" =>
        /\ pc = "await" => (Len(calls) = Len(replies) + 1 /\ pending = calls[Len(calls)])
        /\ pc # "await" => (Len(calls) = Len(replies) /\ pending = NoCall)
        /\ \A i \in 1..Len(calls) : InDeepOrder(i)
        /\ (pc = "done" /\ BothListsSucceeded) =>
              Len(calls) = 3 + Len(ListedAt(AdsetListIndex)) + Len(ListedAt(AdListIndex))

C21_Witness ==
    /\ tool = "get_complete_campaign_details_deep"
    /\ pc = "done"
    /\ BothListsSucceeded
    /\ Len(ListedAt(AdsetListIndex)) = 2
    /\ Len(ListedAt(AdListIndex)) = 2
    /\ Len(calls) = 7

(* ---------------- C22 ---------------- *)
\* The tool run on its own: the step it reaches when it is invoked with the
\* arguments a and its calls are answered, in order, with the replies rs.
BodyOf(t, a) ==
    IF t = "get_complete_campaign_details_deep" THEN deep_body(a) ELSE summary_body(a)
ResumeOf(t, a, l, site, r) ==
    IF t = "get_complete_campaign_details_deep" THEN deep_resume(a, l, site, r)
    ELSE summary_resume(a, l, site, r)
RECURSIVE Replay(_, _, _, _, _)
Replay(t, a, step, rs, i) ==
    IF step.op = "call" /\ i <= Len(rs)
    THEN Replay(t, a, meta_api_tool(ResumeOf(t, a, step.loc, step.call.site, rs[i])), rs, i + 1)
    ELSE step
Alone(t, a, rs) == Replay(t, a, meta_api_tool(BodyOf(t, a)), rs, 1)

\* an invocation is where the tool run on its own would be
Isolated(inv) ==
    inv.tool # "none" =>
        LET s == Alone(inv.tool, inv.args, inv.replies) IN
        /\ inv.pc = "await" => (s.op = "call" /\ s.call = inv.pending /\ s.loc = inv.loc)
        /\ inv.pc = "done" =>
              (s.op = "return" /\ inv.outcome = [kind |-> "returned", value |-> s.value])

AdsetListFailed == \E i \in IndexesOf("adsets") : ReplyFailed(i)
AdListFailed == \E i \in IndexesOf("ads") : ReplyFailed(i)
NotesOf(result, tpl) ==
    IF Has(result, "errors")
    THEN {k \in 1..Len(result.errors) : result.errors[k].tpl = tpl} ELSE {}
DeepFinished == tool = "get_complete_campaign_details_deep" /\ pc = "done"

\* C23: in get_complete_campaign_details_deep a failed ad-set list call, or a
\* failed ad list call, does not end the invocation: the envelope is returned
\* without a top-level error key, with one note for the failed list call and
\* an error in the sections of that branch only (adsets for the ad-set list;
\* ads and ad_creatives for the ad list), and the other branch is fetched:
\* the ad list call is issued after a failed ad-set list call.
C23_ListFailureDegradesOneBranch ==
    /\ (DeepFinished /\ AdsetListFailed) =>
          /\ Returned
          /\ ~Has(Result, "error")
          /\ Cardinality(NotesOf(Result, "Adsets API error: {}")) = 1
          /\ Result.adsets = [data |-> <<>>, error |-> "Error retrieving ad sets"]
          /\ IndexesOf("adset") = {}
          /\ Len(calls) >= 3 /\ calls[3].site = "ads"
          /\ Has(Result.ads, "error") <=> (AdListFailed \/ ListedAds = <<>>)
          /\ (~AdListFailed /\ ListedAds # <<>>) =>
                /\ Result.ads = replies[3].data
                /\ Len(calls) = 3 + Len(ListedAds)
    /\ (DeepFinished /\ AdListFailed) =>
          /\ Returned
          /\ ~Has(Result, "error")
          /\ Cardinality(NotesOf(Result, "Ads API error: {}")) = 1
          /\ Result.ads = [data |-> <<>>, error |-> "Error retrieving ads"]
          /\ Result.ad_creatives =
                [data |-> <<>>, error |-> "Cannot retrieve ad creatives due to ads error"]
          /\ IndexesOf("creatives") = {}
          /\ Has(Result.adsets, "error") <=> (AdsetListFailed \/ ListedAdsets = <<>>)
    /\ (tool = "get_complete_campaign_details_deep" /\ pc = "await" /\ AdsetListFailed) =>
          Len(calls) >= 3

C23_Witness ==
    /\ DeepFinished
    /\ AdsetListFailed
    /\ ~AdListFailed
    /\ ListedAds # <<>>
    /\ Returned
    /\ Result.ads = replies[3].data

(* ---------------- C24 ---------------- *)
BatchIndexes == {i \in 1..Len(calls) : calls[i].fn = "make_batch_api_request"}
CampaignLevelUrl == "{}/insights?fields={}&date_preset={}&time_increment=all_days&level=campaign"
AdLevelUrl == "{}/insights?fields={}&date_preset={}&time_increment=all_days&level=ad&limit=100"
\* the outcome of a sub-response, and the outcome a half of the result shows
SubKind(sub) ==
    IF SubRefused(sub) THEN "refused" ELSE IF SubUnparseable(sub) THEN "unparseable" ELSE "answered"
HalfKind(half) ==
    IF Has(half, "details") THEN "refused" ELSE IF Has(half, "error") THEN "unparseable"
    ELSE "answered"
\* the calls of the campaign-structure fetch are all issued and answered
StructureFetched(n) ==
    /\ Len(replies) >= n
    /\ ~ReplyFailed(1)
    /\ n = AdListIndex + Len(ListedAt(AdListIndex))
    /\ \A i \in 1..n : calls[i].fn = "make_api_request"

\* C24: get_campaign_data_with_insights issues one batch request in an
\* invocation that returns the envelope and at most one in any invocation;
\* the batch carries two GET sub-requests, campaign-level insights first and
\* ad-level insights second; it is the last call, issued when the calls of
\* the campaign-structure fetch have all been answered and that fetch gave no
\* top-level error; the first sub-response becomes campaign_insights and the
\* second ad_insights.
C24_OneBatchAfterStructure ==
    tool = "get_campaign_data_with_insights" =>
        /\ Cardinality(BatchIndexes) <= 1
        /\ \A i \in BatchIndexes :
              /\ i = Len(calls)
              /\ StructureFetched(i - 1)
              /\ ~Has(loc.campaign_data, "error")
              /\ Len(calls[i].requests) = 2
              /\ calls[i].requests[1].method = "GET"
              /\ calls[i].requests[2].method = "GET"
              /\ calls[i].requests[1].relative_url.tpl = CampaignLevelUrl
              /\ calls[i].requests[1].relative_url.args[2] = args.campaign_insights_fields.v
              /\ calls[i].requests[2].relative_url.tpl = AdLevelUrl
              /\ calls[i].requests[2].relative_url.args[2] = args.ad_insights_fields.v
        /\ (Returned /\ Has(Result, "campaign_data")) => Cardinality(BatchIndexes) = 1
        /\ BatchAnswered =>
              /\ HalfKind(Result.campaign_insights) = SubKind(BatchResponse[1])
              /\ HalfKind(Result.ad_insights) = SubKind(BatchResponse[2])
              /\ SubRefused(BatchResponse[1]) =>
                    Result.campaign_insights.details = BatchResponse[1].body
              /\ SubRefused(BatchResponse[2]) =>
                    Result.ad_insights.details = BatchResponse[2].body

C24_Witness ==
    /\ BatchAnswered
    /\ Returned
    /\ Cardinality(BatchIndexes) = 1
    /\ Len(calls) >= 5
    /\ SubKind(BatchResponse[1]) = "answered"
    /\ SubKind(BatchResponse[2]) = "unparseable"
    /\ HalfKind(Result.ad_insights) = "unparseable"

(* ---------------- C25 ---------------- *)
NestedStructures == {"targeting", "promoted_object", "attribution_spec", "frequency_control_specs"}
\* a str: the text json.dumps produced, or a str the caller passed
IsText(x) == x.enc = "json" \/ x.t = "str"

\* C25: in every parameter mapping create_adset and update_adset send, each
\* of targeting, promoted_object, attribution_spec and
\* frequency_control_specs that is present is a JSON-encoded string, never a
\* raw list or mapping.
C25_NestedStructuresAreJsonStrings ==
    \A i \in 1..Len(calls) :
        (tool \in {"create_adset", "update_adset"} /\ calls[i].method = "POST") =>
            \A k \in NestedStructures \cap DOMAIN calls[i].params : IsText(calls[i].params[k])

(* ---------------- C26 ---------------- *)
\* get_insights_summary has been answered with a row set
SummaryRowsFetched ==
    /\ tool = "get_insights_summary"
    /\ Len(replies) >= 1
    /\ replies[1].kind = "ok"
    /\ Has(replies[1].data, "data")
    /\ ~Has(replies[1].data, "error")
FirstRowAccount ==
    LET rows == replies[1].data.data
    IN IF rows # <<>> /\ Has(rows[1], "account_id") THEN rows[1].account_id ELSE ""
\* the text of an account id: the f-string with its value filled in
AccountText(f) == IF f.tpl = "act_{}" THEN <<"act_", f.args[1]>> ELSE <<"", f.args[1]>>
ExpectedAccount ==
    IF FirstRowAccount # ""
    THEN IF StartsWithAct(FirstRowAccount) THEN <<"", FirstRowAccount>> ELSE <<"act_", FirstRowAccount>>
    ELSE IF StartsWithAct(args.object_id.v) THEN <<"", args.object_id.v>>
    ELSE <<"", "">>

\* C26: get_insights_summary counts the campaigns of the account named by the
\* first row's account_id, with act_ put in front when it is not there, else
\* of the query's object_id when that starts with act_; when neither gives an
\* account id no campaign-count call is issued and the result has the keys
\* total_spend and total_leads only.
C26_CountUsesDerivedAccount ==
    SummaryRowsFetched =>
        IF ExpectedAccount # <<"", "">>
        THEN /\ Len(calls) = 2
             /\ calls[2].site = "campaign_count"
             /\ calls[2].endpoint.tpl = "{}/campaigns"
             /\ AccountText(calls[2].endpoint.args[1]) = ExpectedAccount
        ELSE /\ Len(calls) = 1
             /\ Returned
             /\ DOMAIN Result = {"total_spend", "total_leads"}

C26_Witness ==
    /\ SummaryRowsFetched
    /\ replies[1].data.data # <<>>
    /\ ExpectedAccount = <<"", "">>
    /\ Returned
    /\ Result.total_leads > 0
    /\ ~Has(Result, "active_campaigns")

(* ---------------- C27 ---------------- *)
\* campaign_id is given, name_contains is absent, empty or blank, and the
\* campaign detail call was answered with the campaign
ResolvableById ==
    /\ tool = "get_complete_campaign_details_deep"
    /\ Truthy(args.campaign_id)
    /\ (args.name_contains = PNone \/ (args.name_contains.t = "str" /\ StripStr(args.name_contains.v) = ""))
    /\ Len(replies) >= 1
    /\ ~ReplyFailed(1)

\* C27: get_complete_campaign_details_deep called with a campaign_id and with
\* name_contains absent, empty or whitespace-only, whose campaign detail call
\* succeeds, resolves the campaign to campaign_id, issues the ad-set list
\* call and the ad list call for it, and does not return "Campaign not found".
C27_CampaignIdResolves ==
    ResolvableById =>
        /\ ~(Returned /\ Has(Result, "error"))
        /\ loc.actual_campaign_id = args.campaign_id.v
        /\ Len(calls) >= 2
        /\ calls[2].site = "adsets"
        /\ calls[2].endpoint.args[1] = args.campaign_id.v
        /\ pc = "done" =>
              \E i \in IndexesOf("ads") : calls[i].endpoint.args[1] = args.campaign_id.v

\* the same for name_contains absent or empty
C27_CampaignIdResolvesWithoutName ==
    (ResolvableById /\ args.name_contains \in {PNone, PStr("")}) =>
        /\ ~(Returned /\ Has(Result, "error"))
        /\ loc.actual_campaign_id = args.campaign_id.v
        /\ Len(calls) >= 2
        /\ calls[2].site = "adsets"
        /\ calls[2].endpoint.args[1] = args.campaign_id.v
        /\ pc = "done" =>
              \E i \in IndexesOf("ads") : calls[i].endpoint.args[1] = args.campaign_id.v

(* ---------------- C28 ---------------- *)
FailedToUpdate ==
    /\ tool \in UpdateTools
    /\ Returned
    /\ Has(Result, "error")
    /\ Has(Result.error, "tpl")
    /\ Result.error.tpl \in {"Failed to update campaign {}", "Failed to update ad set {}"}
\* the POST of the invocation was answered and the answer is not an error
PostSucceeded ==
    /\ tool \in UpdateTools
    /\ Len(replies) >= 1
    /\ calls[1].method = "POST"
    /\ replies[1].kind = "ok"
    /\ ~Has(replies[1].data, "error")

\* C28: when update_campaign or update_adset returns a "Failed to update ..."
\* error object the POST of that invocation did not succeed; whenever the
\* POST succeeded the tool returns a response without an error key, also
\* when the name GET that follows fails.
C28_FailedUpdateMeansNothingChanged ==
    /\ FailedToUpdate => ~PostSucceeded
    /\ (PostSucceeded /\ pc = "done") => (Returned /\ ~Has(Result, "error"))

(* ---------------- C29 ---------------- *)
\* get_campaign_data_with_insights returned its envelope
EnvelopeReturned ==
    /\ tool = "get_campaign_data_with_insights"
    /\ Returned
    /\ ~Has(Result, "error")
    /\ Has(Result, "campaign_insights")
    /\ Len(replies) = Len(calls)
    /\ replies[Len(replies)].kind = "ok"
\* half h of the result comes from sub-response h, which has code 200
DerivedFromAnswer(h) ==
    /\ Len(replies[Len(replies)].data) >= 2
    /\ replies[Len(replies)].data[h].code = 200

\* C29: in a result of get_campaign_data_with_insights without a top-level
\* error, campaign_insights and ad_insights are each derived from a
\* sub-response with code 200 or are an object with an error key; when the
\* batch response has fewer than two entries both halves have an error key.
C29_HalvesAreAnsweredOrErrors ==
    EnvelopeReturned =>
        \A h \in {1, 2} : DerivedFromAnswer(h) \/ Has(Result[HalfKey(h)], "error")

\* the same for batch responses of two entries
C29_FullBatchHalvesAreAnsweredOrErrors ==
    (EnvelopeReturned /\ Len(replies[Len(replies)].data) >= 2) =>
        \A h \in {1, 2} : DerivedFromAnswer(h) \/ Has(Result[HalfKey(h)], "error")

(* ---------------- C30 ---------------- *)
\* the campaign id in the URL of sub-request k of the batch call
BatchCampaignId(k) == calls[Len(calls)].requests[k].relative_url.args[1]
BatchIssued ==
    /\ tool = "get_campaign_data_with_insights"
    /\ calls # <<>>
    /\ calls[Len(calls)].fn = "make_batch_api_request"
ListCallIndexes == {i \in 1..Len(calls) : calls[i].site \in {"adsets", "ads"}}

\* C30: whatever campaign_id and name_contains get_campaign_data_with_insights
\* accepts, both sub-request URLs of its batch name the campaign whose ad
\* sets and ads get_complete_campaign_details_deep listed in the same
\* invocation.
C30_BatchUsesResolvedCampaign ==
    BatchIssued =>
        /\ BatchCampaignId(1) = BatchCampaignId(2)
        /\ Cardinality({i \in ListCallIndexes : calls[i].site = "adsets"}) = 1
        /\ Cardinality({i \in ListCallIndexes : calls[i].site = "ads"}) = 1
        /\ \A i \in ListCallIndexes :
              /\ calls[i].endpoint.tpl \in {"{}/adsets", "{}/ads"}
              /\ calls[i].endpoint.args[1] = BatchCampaignId(1)

\* the name search resolved to a campaign other than the campaign_id argument
C30_Witness ==
    /\ BatchIssued
    /\ pc = "done"
    /\ Returned
    /\ args.campaign_id = PStr("c1")
    /\ BatchCampaignId(1) = "c2"
    /\ Has(Result, "campaign_insights")
====
